---- MODULE Spec2Model ----
(***************************************************************************)
(* Model of the contact-analytics dashboard: the data pipeline of          *)
(* src/utils/data_processor.py (load_data, get_aggregate_metrics,          *)
(* extract_keywords, filter_dataframe, search_dataframe), the session      *)
(* initialisation of src/app.py and src/pages/*.py, the search and filter   *)
(* widgets and the two views of the main page, and the bodies of the       *)
(* pages as far as they touch the session's table.                         *)
(*                                                                         *)
(* JSON values and table cells are tagged records.  A Python str is a      *)
(* sequence of one-character strings, so that joining and splitting are    *)
(* computed, not assumed.                                                  *)
(***************************************************************************)
EXTENDS Integers, Sequences, FiniteSets, TLC

\* ------------------------------------------------------------------------
\* Bounds of the model
\* ------------------------------------------------------------------------

\* Longest envelope array given to load_data when it is called directly.
MaxLen == 3

\* Longest envelope array held by the data file when a session starts.
MaxFileLen == 2

\* Most browser sessions (page refreshes) in one behaviour.
MaxSessions == 2

\* ------------------------------------------------------------------------
\* JSON values and DataFrame cells
\* ------------------------------------------------------------------------

Null == [t |-> "null"]

\* float('nan'): the cell pandas puts where a row has no value for a column,
\* and the result of a failed numeric coercion.
NaN == [t |-> "nan"]

Str(s) == [t |-> "str", s |-> s]

Num(n) == [t |-> "num", n |-> n]

Bool(b) == [t |-> "bool", b |-> b]

List(l) == [t |-> "list", l |-> l]

Obj(o) == [t |-> "obj", o |-> o]

EmptyStr == Str(<< >>)

Digit == [c \in {"0", "1", "2", "3", "4", "5", "6", "7", "8", "9"} |->
            CASE c = "0" -> 0 [] c = "1" -> 1 [] c = "2" -> 2 [] c = "3" -> 3
              [] c = "4" -> 4 [] c = "5" -> 5 [] c = "6" -> 6 [] c = "7" -> 7
              [] c = "8" -> 8 [] c = "9" -> 9]

\* ------------------------------------------------------------------------
\* The flat row's columns: sub-object, source key, column, kind of value
\* ------------------------------------------------------------------------

F(sub, src, col, kind) == [sub |-> sub, src |-> src, col |-> col, kind |-> kind]

Fields ==
  { F("basic_info", "full_name", "full_name", "str"),
    F("basic_info", "company", "company", "str"),
    F("basic_info", "role", "role", "str"),
    F("challenge_analysis", "raw_challenge", "raw_challenge", "str"),
    F("challenge_analysis", "category", "challenge_category", "str"),
    F("challenge_analysis", "keywords", "challenge_keywords", "list"),
    F("challenge_analysis", "severity_level", "severity_level", "str"),
    F("challenge_analysis", "impact_area", "impact_area", "str"),
    F("scavenger_hunt_metrics", "participated", "participated", "bool"),
    F("scavenger_hunt_metrics", "completion_rate", "completion_rate", "num"),
    F("scavenger_hunt_metrics", "completed_activities", "completed_activities", "list"),
    F("scavenger_hunt_metrics", "response_speed", "response_speed", "str"),
    F("scavenger_hunt_metrics", "completed_full_hunt", "completed_full_hunt", "bool"),
    F("engagement_analysis", "overall_score", "overall_score", "num"),
    F("engagement_analysis", "response_pattern", "response_pattern", "str"),
    F("engagement_analysis", "interested_features", "interested_features", "list"),
    F("engagement_analysis", "conversation_depth", "conversation_depth", "str"),
    F("engagement_analysis", "contact_sharing_willingness", "contact_sharing_willingness", "str"),
    F("sentiment_metrics", "overall_sentiment", "overall_sentiment", "str"),
    F("sentiment_metrics", "sentiment_progression", "sentiment_progression", "str"),
    F("sentiment_metrics", "enthusiasm_level", "enthusiasm_level", "num"),
    F("sentiment_metrics", "pain_points", "pain_points", "list"),
    F("sentiment_metrics", "satisfaction_signals", "satisfaction_signals", "list"),
    F("industry_insights", "company_size_indicator", "company_size_indicator", "str"),
    F("industry_insights", "industry_vertical", "industry_vertical", "str"),
    F("industry_insights", "tech_adoption_level", "tech_adoption_level", "str"),
    F("industry_insights", "competitive_position", "competitive_position", "str"),
    F("follow_up_strategy", "recommended_next_step", "recommended_next_step", "str"),
    F("follow_up_strategy", "suggested_content", "suggested_content", "str"),
    F("follow_up_strategy", "ideal_follow_up_time", "ideal_follow_up_time", "str"),
    F("follow_up_strategy", "preferred_channel", "preferred_channel", "str"),
    F("follow_up_strategy", "key_talking_points", "key_talking_points", "list"),
    F("sales_qualification", "lead_score", "lead_score", "num"),
    F("sales_qualification", "estimated_timeline", "estimated_timeline", "str"),
    F("sales_qualification", "objections_to_address", "objections_to_address", "list"),
    F("sales_qualification", "budget_indicator", "budget_indicator", "str"),
    F("sales_qualification", "decision_maker_status", "decision_maker_status", "str") }

SubObjects == {f.sub : f \in Fields}

\* The second argument of each .get(): '' / 0 / False, and [] before the join.
Default(kind) ==
  CASE kind = "str" -> EmptyStr
    [] kind = "num" -> Num(0)
    [] kind = "bool" -> Bool(FALSE)
    [] kind = "list" -> List(<< >>)

numeric_cols == {"completion_rate", "overall_score", "enthusiasm_level", "lead_score"}

bool_cols == {"participated", "completed_full_hunt"}

\* ------------------------------------------------------------------------
\* Python primitives used by load_data
\* ------------------------------------------------------------------------

\* key in v: a dict tests its keys; None, numbers and booleans raise
\* TypeError.  (The bounded inputs hold no str or list at these positions.)
PyIn(key, v) ==
  IF v.t = "obj" THEN (IF key \in DOMAIN v.o THEN "yes" ELSE "no") ELSE "raise"

\* d.get(key, default) on a dict d
Get(d, key, default) == IF key \in DOMAIN d.o THEN d.o[key] ELSE default

RECURSIVE Join(_, _)
\* sep.join(parts) for a sequence of Python strs
Join(parts, sep) ==
  IF Len(parts) = 0 THEN << >>
  ELSE IF Len(parts) = 1 THEN parts[1].s
  ELSE parts[1].s \o sep \o Join(Tail(parts), sep)

CommaSpace == <<",", " ">>

\* ', '.join(v) raises TypeError unless v is an iterable of str: a list
\* whose elements are all str, or a str (iterated by character).
JoinRaises(v) ==
  CASE v.t = "list" -> \E i \in 1..Len(v.l) : v.l[i].t # "str"
    [] v.t = "str" -> FALSE
    [] OTHER -> TRUE

\* JoinValue putting nothing between the elements
JoinValueNoSeparator(v) ==
  CASE v.t = "list" -> Str(Join(v.l, << >>))
    [] v.t = "str" -> v

JoinValue(v) ==
  CASE v.t = "list" -> Str(Join(v.l, CommaSpace))
    [] v.t = "str" -> Str(Join([i \in 1..Len(v.s) |-> Str(<<v.s[i]>>)], CommaSpace))

\* ------------------------------------------------------------------------
\* load_data: flattening one envelope element
\* ------------------------------------------------------------------------

\* The order in which load_data visits the eight sub-objects.
SubOrder ==
  << "basic_info", "challenge_analysis", "scavenger_hunt_metrics",
     "engagement_analysis", "sentiment_metrics", "industry_insights",
     "follow_up_strategy", "sales_qualification" >>

\* The test of line 32, 'message' in item and 'content' in item['message']
\* and 'contact_analytics' in item['message']['content'], evaluated left to
\* right: "yes", "no", or "raise" (TypeError) when a container is not one.
HasPath(item) ==
  LET a == PyIn("message", item) IN
  IF a # "yes" THEN a
  ELSE LET b == PyIn("content", item.o["message"]) IN
       IF b # "yes" THEN b
       ELSE PyIn("contact_analytics", item.o["message"].o["content"])

\* The exception one "if '<sub>' in contact_data:" block raises, or "none":
\* sub.get on a non-dict is an AttributeError, a join of a non-iterable or
\* of non-str elements a TypeError.
SubError(cd, sub) ==
  IF sub \notin DOMAIN cd.o THEN "none"
  ELSE IF cd.o[sub].t # "obj" THEN "AttributeError"
  ELSE IF \E f \in Fields : /\ f.sub = sub
                            /\ f.kind = "list"
                            /\ JoinRaises(Get(cd.o[sub], f.src, Default("list")))
       THEN "TypeError"
  ELSE "none"

RECURSIVE FirstSubError(_, _)
FirstSubError(cd, i) ==
  IF i > Len(SubOrder) THEN "none"
  ELSE IF SubError(cd, SubOrder[i]) # "none" THEN SubError(cd, SubOrder[i])
  ELSE FirstSubError(cd, i + 1)

\* The exception lines 36-123 raise for contact_data, or "none".
FlatError(cd) ==
  IF cd.t # "obj" THEN "AttributeError" ELSE FirstSubError(cd, 1)

\* The keys of flat_data: contact_id, and the columns of every sub-object
\* that is a key of contact_data.
FlatCols(cd) ==
  {"contact_id"} \cup {f.col : f \in {g \in Fields : g.sub \in DOMAIN cd.o}}

FieldOf(col) == CHOOSE f \in Fields : f.col = col

\* FlatCell looking the sub-field up under the column's name
FlatCellByColumnName(cd, col) ==
  IF col = "contact_id" THEN Get(cd, "contact_id", EmptyStr)
  ELSE LET f == FieldOf(col)
           v == Get(cd.o[f.sub], f.col, Default(f.kind))
       IN IF f.kind = "list" THEN JoinValue(v) ELSE v

\* flat_data[col]
FlatCell(cd, col) ==
  IF col = "contact_id" THEN Get(cd, "contact_id", EmptyStr)
  ELSE LET f == FieldOf(col)
           v == Get(cd.o[f.sub], f.src, Default(f.kind))
       IN IF f.kind = "list" THEN JoinValue(v) ELSE v

\* flat_data of lines 36-123, for a contact_data that raises nothing
FlatData(cd) == [col \in FlatCols(cd) |-> FlatCell(cd, col)]

\* One iteration of the loop of line 31: the element is skipped, appended
\* as a flat row, or raises.
ItemOutcome(item) ==
  LET p == HasPath(item) IN
  IF p = "raise" THEN [kind |-> "raise", cause |-> "TypeError"]
  ELSE IF p = "no" THEN [kind |-> "skip"]
  ELSE LET cd == item.o["message"].o["content"].o["contact_analytics"] IN
       IF FlatError(cd) # "none"
       THEN [kind |-> "raise", cause |-> FlatError(cd)]
       ELSE [kind |-> "row", row |-> FlatData(cd)]

\* ------------------------------------------------------------------------
\* load_data: the table
\* ------------------------------------------------------------------------

EmptyDF == [cols |-> {}, rows |-> << >>]

\* pd.DataFrame(list of dicts): the columns are the union of the keys, and
\* a row without a key holds NaN there.
DataFrame(dicts) ==
  LET cols == UNION {DOMAIN dicts[i] : i \in 1..Len(dicts)} IN
  [cols |-> cols,
   rows |-> [i \in 1..Len(dicts) |->
               [c \in cols |-> IF c \in DOMAIN dicts[i] THEN dicts[i][c] ELSE NaN]]]

IsSpace(c) == c = " "

RECURSIVE Strip(_)
\* str.strip()
Strip(s) ==
  IF Len(s) = 0 THEN s
  ELSE IF IsSpace(s[1]) THEN Strip(Tail(s))
  ELSE IF IsSpace(s[Len(s)]) THEN Strip(SubSeq(s, 1, Len(s) - 1))
  ELSE s

RECURSIVE DigitsValue(_)
DigitsValue(s) ==
  IF Len(s) = 0 THEN 0
  ELSE 10 * DigitsValue(SubSeq(s, 1, Len(s) - 1)) + Digit[s[Len(s)]]

\* pd.to_numeric(..., errors='coerce') on one cell: a number stays, a str
\* of digits parses, anything else (None, NaN, other text) becomes NaN.
\* (The bounded inputs hold no signs, decimal points or exponents.)
ToNumeric(v) ==
  CASE v.t = "num" -> v
    [] v.t = "str" ->
         LET s == Strip(v.s) IN
         IF Len(s) > 0 /\ \A i \in 1..Len(s) : s[i] \in DOMAIN Digit
         THEN Num(DigitsValue(s)) ELSE NaN
    [] v.t = "bool" -> Num(IF v.b THEN 1 ELSE 0)
    [] OTHER -> NaN

\* .astype(bool) on one cell is Python's bool(): NaN is truthy, None is not.
AsBool(v) ==
  CASE v.t = "bool" -> v
    [] v.t = "num" -> Bool(v.n # 0)
    [] v.t = "str" -> Bool(Len(v.s) > 0)
    [] v.t = "list" -> Bool(Len(v.l) > 0)
    [] v.t = "nan" -> Bool(TRUE)
    [] v.t = "null" -> Bool(FALSE)

\* Lines 130-140: the type conversions, on the columns the table has.
Coerce(df) ==
  [cols |-> df.cols,
   rows |-> [i \in 1..Len(df.rows) |->
               [c \in df.cols |->
                  IF c \in numeric_cols THEN ToNumeric(df.rows[i][c])
                  ELSE IF c \in bool_cols THEN AsBool(df.rows[i][c])
                  ELSE df.rows[i][c]]]]

RECURSIVE Outcomes(_)
Outcomes(data) ==
  IF Len(data) = 0 THEN << >>
  ELSE <<ItemOutcome(data[1])>> \o Outcomes(Tail(data))

RECURSIVE RowsOf(_)
\* processed_data: the flat rows, in input order
RowsOf(outs) ==
  IF Len(outs) = 0 THEN << >>
  ELSE IF outs[1].kind = "row" THEN <<outs[1].row>> \o RowsOf(Tail(outs))
  ELSE RowsOf(Tail(outs))

\* WrapError with a fixed text instead of str(e)
WrapErrorWithoutCause(cause) ==
  [kind |-> "raise",
   exc |-> [type |-> "Exception",
            prefix |-> "Error loading or processing data",
            cause |-> ""]]

\* The handler of lines 144-145: whatever was raised is raised again as a
\* plain Exception whose text holds str(e).
WrapError(cause) ==
  [kind |-> "raise",
   exc |-> [type |-> "Exception",
            prefix |-> "Error loading or processing data: ",
            cause |-> cause]]

Returned(df) == [kind |-> "ok", df |-> df]

\* The value of Body(v), with v computed once
Let(v, Body(_)) == CHOOSE r \in {Body(x) : x \in {v}} : TRUE

\* The loop of lines 31-125 and what follows it, on the parsed array's
\* per-element outcomes: the first exception raised, or the table.
LoadOutcomes(outs) ==
  LET bad == {i \in 1..Len(outs) : outs[i].kind = "raise"} IN
  IF bad # {}
  THEN WrapError(outs[CHOOSE i \in bad : \A j \in bad : i <= j].cause)
  ELSE Let(DataFrame(RowsOf(outs)), LAMBDA df : Returned(Coerce(df)))

\* load_data(file_path) on the file as it is on disk
load_data(f) ==
  IF f.state = "missing" THEN WrapError("FileNotFoundError")
  ELSE IF f.state = "malformed" THEN WrapError("JSONDecodeError")
  ELSE Let(Outcomes(f.data), LoadOutcomes)

\* ------------------------------------------------------------------------
\* get_aggregate_metrics
\* ------------------------------------------------------------------------

\* df.empty
IsEmpty(df) == Len(df.rows) = 0 \/ df.cols = {}

\* The cells of one column, in row order
Column(df, col) == [i \in 1..Len(df.rows) |-> df.rows[i][col]]

RECURSIVE SumValid(_)
\* The sum of the numbers of a column, NaN skipped
SumValid(cells) ==
  IF Len(cells) = 0 THEN 0
  ELSE (IF cells[1].t = "num" THEN cells[1].n ELSE 0) + SumValid(Tail(cells))

RECURSIVE CountValid(_)
\* The count of the numbers of a column, NaN skipped
CountValid(cells) ==
  IF Len(cells) = 0 THEN 0
  ELSE (IF cells[1].t = "num" THEN 1 ELSE 0) + CountValid(Tail(cells))

\* Mean with NaN counted as a zero
MeanOverAllRows(cells) ==
  IF Len(cells) = 0 THEN NaN
  ELSE [t |-> "frac", num |-> SumValid(cells), den |-> Len(cells)]

\* Series.mean() (skipna=True) as the exact fraction num/den; NaN when no
\* cell holds a number.
Mean(cells) ==
  IF CountValid(cells) = 0 THEN NaN
  ELSE [t |-> "frac", num |-> SumValid(cells), den |-> CountValid(cells)]

IsNull(v) == v.t \in {"nan", "null"}

\* ValueCounts with null cells counted as values
ValueCountsOfAllCells(cells) ==
  LET vals == {cells[i] : i \in 1..Len(cells)} IN
  [v \in vals |-> Cardinality({i \in 1..Len(cells) : cells[i] = v})]

\* Series.value_counts().to_dict(): each distinct non-null value with the
\* number of rows holding it
ValueCounts(cells) ==
  LET vals == {cells[i] : i \in {j \in 1..Len(cells) : ~IsNull(cells[j])}} IN
  [v \in vals |-> Cardinality({i \in 1..Len(cells) : cells[i] = v})]

\* The columns lines 162-170 index; a missing one is a KeyError.
MetricCols ==
  {"overall_score", "lead_score", "enthusiasm_level", "completion_rate",
   "overall_sentiment", "challenge_category", "role", "preferred_channel",
   "industry_vertical"}

EmptyDict == [k \in {} |-> 0]

\* get_aggregate_metrics without its test of df.empty
get_aggregate_metrics_unguarded(df) ==
  IF ~(MetricCols \subseteq df.cols) THEN [kind |-> "raise", cause |-> "KeyError"]
  ELSE [kind |-> "ok", metrics |-> [total_contacts |-> Len(df.rows)]]

\* get_aggregate_metrics(df): the dict it returns, or the KeyError it raises
get_aggregate_metrics(df) ==
  IF IsEmpty(df) THEN [kind |-> "ok", metrics |-> EmptyDict]
  ELSE IF ~(MetricCols \subseteq df.cols) THEN [kind |-> "raise", cause |-> "KeyError"]
  ELSE [kind |-> "ok",
        metrics |->
          [total_contacts |-> Len(df.rows),
           avg_engagement_score |-> Mean(Column(df, "overall_score")),
           avg_lead_score |-> Mean(Column(df, "lead_score")),
           avg_enthusiasm_level |-> Mean(Column(df, "enthusiasm_level")),
           avg_completion_rate |-> Mean(Column(df, "completion_rate")),
           sentiment_distribution |-> ValueCounts(Column(df, "overall_sentiment")),
           challenge_categories |-> ValueCounts(Column(df, "challenge_category")),
           role_distribution |-> ValueCounts(Column(df, "role")),
           preferred_channels |-> ValueCounts(Column(df, "preferred_channel")),
           industry_verticals |-> ValueCounts(Column(df, "industry_vertical"))]]

\* ------------------------------------------------------------------------
\* extract_keywords
\* ------------------------------------------------------------------------

\* The argument of most_common in line 198
TopN == 20

RECURSIVE Split(_, _)
\* s.split(sep) for a one-character sep: the pieces between the
\* separators, empty pieces included
Split(s, sep) ==
  IF \A i \in 1..Len(s) : s[i] # sep THEN <<s>>
  ELSE LET k == CHOOSE i \in 1..Len(s) : s[i] = sep /\ \A j \in 1..(i - 1) : s[j] # sep
       IN <<SubSeq(s, 1, k - 1)>> \o Split(SubSeq(s, k + 1, Len(s)), sep)

\* Series.dropna(): the cells that are neither NaN nor None, in row order
DropNa(cells) == SelectSeq(cells, LAMBDA v : ~IsNull(v))

RECURSIVE AllKeywordsUnstripped(_)
\* AllKeywords without the strip() of each piece
AllKeywordsUnstripped(cells) ==
  IF Len(cells) = 0 THEN << >>
  ELSE Split(cells[1].s, ",") \o AllKeywordsUnstripped(Tail(cells))

RECURSIVE AllKeywords(_)
\* all_keywords after the loop of lines 188-190: the stripped pieces of
\* every cell, in row order and left to right
AllKeywords(cells) ==
  IF Len(cells) = 0 THEN << >>
  ELSE Let(Split(cells[1].s, ","),
           LAMBDA pieces : [i \in 1..Len(pieces) |-> Strip(pieces[i])])
         \o AllKeywords(Tail(cells))

\* Line 193: the empty strings removed
NonEmpty(tokens) == SelectSeq(tokens, LAMBDA k : Len(k) > 0)

\* Counter(all_keywords).items(): each distinct token with the number of
\* its occurrences, in the order the tokens were first met
Counter(tokens) ==
  Let({i \in 1..Len(tokens) : \A j \in 1..(i - 1) : tokens[j] # tokens[i]},
      LAMBDA first :
        [k \in 1..Cardinality(first) |->
           LET i == CHOOSE x \in first : Cardinality({y \in first : y < x}) = k - 1
           IN [key |-> tokens[i],
               n |-> Cardinality({j \in 1..Len(tokens) : tokens[j] = tokens[i]})]])

\* items without its k-th element
Without(items, k) == SubSeq(items, 1, k - 1) \o SubSeq(items, k + 1, Len(items))

\* most_common taking the first n items as they were first met
FirstEncountered(items, n) == SubSeq(items, 1, IF Len(items) < n THEN Len(items) ELSE n)

RECURSIVE MostCommonLatestFirst(_, _)
\* most_common with equal counts ordered by the latest first meeting
MostCommonLatestFirst(items, n) ==
  IF n = 0 \/ Len(items) = 0 THEN << >>
  ELSE LET k == CHOOSE i \in 1..Len(items) :
                  /\ \A j \in 1..Len(items) : items[j].n <= items[i].n
                  /\ \A j \in (i + 1)..Len(items) : items[j].n < items[i].n
       IN <<items[k]>> \o MostCommonLatestFirst(Without(items, k), n - 1)

RECURSIVE MostCommon(_, _)
\* Counter.most_common(n): heapq.nlargest by count, which is a stable
\* descending sort cut after n items: of equal counts the item met first
\* comes first.
MostCommon(items, n) ==
  IF n = 0 \/ Len(items) = 0 THEN << >>
  ELSE LET k == CHOOSE i \in 1..Len(items) :
                  /\ \A j \in 1..Len(items) : items[j].n <= items[i].n
                  /\ \A j \in 1..(i - 1) : items[j].n < items[i].n
       IN <<items[k]>> \o MostCommon(Without(items, k), n - 1)

\* extract_keywords(df, column): the dict it returns, as its items in
\* insertion order, or what it raises: KeyError for df[column] of a column
\* the table lacks, AttributeError for .split on a cell that is not a str.
extract_keywords(df, column) ==
  IF column \notin df.cols THEN [kind |-> "raise", cause |-> "KeyError"]
  ELSE Let(DropNa(Column(df, column)),
           LAMBDA cells :
             IF \E i \in 1..Len(cells) : cells[i].t # "str"
             THEN [kind |-> "raise", cause |-> "AttributeError"]
             ELSE [kind |-> "ok",
                   items |-> MostCommon(Counter(NonEmpty(AllKeywords(cells))), TopN)])

\* ------------------------------------------------------------------------
\* filter_dataframe
\* ------------------------------------------------------------------------

\* The dtype pandas gives a column of a loaded table: the coerced columns
\* are numeric or bool; any other column is numeric or bool when all its
\* cells are, and object otherwise.
InferDtype(df, c) ==
  IF c \in numeric_cols THEN "float64"
  ELSE IF c \in bool_cols THEN "bool"
  ELSE IF \A i \in 1..Len(df.rows) : df.rows[i][c].t \in {"num", "nan"} THEN "float64"
  ELSE IF \A i \in 1..Len(df.rows) : df.rows[i][c].t = "bool" THEN "bool"
  ELSE "object"

\* df.dtypes: a table cut from another keeps the dtypes of the table it
\* was cut from, whatever cells are left.
Dtypes(df) ==
  IF "dtypes" \in DOMAIN df THEN df.dtypes
  ELSE [c \in df.cols |-> InferDtype(df, c)]

RECURSIVE RowsAt(_, _, _)
\* The rows of df from the i-th on whose index is in keep, in order
RowsAt(df, keep, i) ==
  IF i > Len(df.rows) THEN << >>
  ELSE (IF i \in keep THEN <<df.rows[i]>> ELSE << >>) \o RowsAt(df, keep, i + 1)

\* Take with the dtypes inferred again from the cells that are left
TakeInfersDtypes(df, keep) == [cols |-> df.cols, rows |-> RowsAt(df, keep, 1)]

\* df[mask]: the rows whose index is in keep, in their order
Take(df, keep) ==
  [cols |-> df.cols, rows |-> RowsAt(df, keep, 1), dtypes |-> Dtypes(df)]

\* bool(value)
Truthy(v) ==
  CASE v.t = "list" -> Len(v.l) > 0
    [] v.t = "str" -> Len(v.s) > 0
    [] v.t = "num" -> v.n # 0
    [] v.t = "bool" -> v.b
    [] v.t = "null" -> FALSE
    [] OTHER -> TRUE

\* Series.isin(values) on one cell
IsIn(cell, l) == \E k \in 1..Len(l) : l[k] = cell

\* Series == value on one cell: NaN equals nothing
CellEq(cell, v) == cell.t # "nan" /\ cell = v

\* FilterStep with an empty list matching no row
FilterStepEmptyMatchesNothing(df, column, value) ==
  IF column \in df.cols /\ value.t = "list"
  THEN Take(df, {i \in 1..Len(df.rows) : IsIn(df.rows[i][column], value.l)})
  ELSE df

\* One iteration of the loop of lines 230-236
FilterStep(df, column, value) ==
  IF Truthy(value) /\ column \in df.cols
  THEN IF value.t = "list"
       THEN Take(df, {i \in 1..Len(df.rows) : IsIn(df.rows[i][column], value.l)})
       ELSE Take(df, {i \in 1..Len(df.rows) : CellEq(df.rows[i][column], value)})
  ELSE df

\* filter_dataframe applying the last entry only
filter_dataframe_last_entry(df, filters) ==
  IF Len(filters) = 0 THEN df
  ELSE FilterStep(df, filters[Len(filters)].column, filters[Len(filters)].value)

RECURSIVE filter_dataframe(_, _)
\* filter_dataframe(df, filters), filters being the dict's items in order
filter_dataframe(df, filters) ==
  IF Len(filters) = 0 THEN df
  ELSE Let(filter_dataframe(df, SubSeq(filters, 1, Len(filters) - 1)),
           LAMBDA filtered_df :
             FilterStep(filtered_df, filters[Len(filters)].column,
                        filters[Len(filters)].value))

\* ------------------------------------------------------------------------
\* search_dataframe
\* ------------------------------------------------------------------------

UpperCase ==
  <<"A", "B", "C", "D", "E", "F", "G", "H", "I", "J", "K", "L", "M",
    "N", "O", "P", "Q", "R", "S", "T", "U", "V", "W", "X", "Y", "Z">>

LowerCase ==
  <<"a", "b", "c", "d", "e", "f", "g", "h", "i", "j", "k", "l", "m",
    "n", "o", "p", "q", "r", "s", "t", "u", "v", "w", "x", "y", "z">>

\* Lower leaving every character as it is
LowerUnchanged(s) == s

\* str.lower()
Lower(s) ==
  [i \in 1..Len(s) |->
     IF \E k \in 1..Len(UpperCase) : UpperCase[k] = s[i]
     THEN LowerCase[CHOOSE k \in 1..Len(UpperCase) : UpperCase[k] = s[i]]
     ELSE s[i]]

RECURSIVE NumStr(_)
\* str(n) for a natural number n
NumStr(n) ==
  IF n < 10 THEN <<CHOOSE c \in DOMAIN Digit : Digit[c] = n>>
  ELSE NumStr(n \div 10) \o <<CHOOSE c \in DOMAIN Digit : Digit[c] = n % 10>>

\* .fillna('').astype(str) on one cell of an object column
CellStr(v) ==
  CASE v.t = "str" -> v.s
    [] v.t = "num" -> NumStr(v.n)
    [] v.t = "bool" -> IF v.b THEN <<"T", "r", "u", "e">> ELSE <<"F", "a", "l", "s", "e">>
    [] OTHER -> << >>

Quantifiers == {"*", "+"}

\* re.compile(pat) fails: a quantifier with nothing to repeat, or an
\* unterminated group.  (The terms of the model hold no ')', no two
\* quantifiers in a row and none of ? [ ] { } | ^ $ \.)
CompileFails(pat) ==
  \/ \E i \in 1..Len(pat) : pat[i] = "("
  \/ Len(pat) > 0 /\ pat[1] \in Quantifiers

\* The atoms of a pattern that compiles: a character or '.', once, or
\* repeated by a following '*' or '+'
Atoms(pat) ==
  LET at == {i \in 1..Len(pat) : pat[i] \notin Quantifiers} IN
  [k \in 1..Cardinality(at) |->
     LET i == CHOOSE x \in at : Cardinality({y \in at : y < x}) = k - 1
     IN [c |-> pat[i],
         q |-> IF i < Len(pat) /\ pat[i + 1] \in Quantifiers THEN pat[i + 1] ELSE "1"]]

\* The atom matches the character
AtomMatches(a, ch) == a.c = "." \/ a.c = ch

RECURSIVE MatchHere(_, _, _, _)
\* The atoms from the i-th on match s from position j on
MatchHere(atoms, i, s, j) ==
  IF i > Len(atoms) THEN TRUE
  ELSE \E n \in (IF atoms[i].q = "*" THEN 0 ELSE 1)..
                (IF atoms[i].q = "1" THEN 1 ELSE Len(s) - j + 1) :
         /\ j + n - 1 <= Len(s)
         /\ \A k \in j..(j + n - 1) : AtomMatches(atoms[i], s[k])
         /\ MatchHere(atoms, i + 1, s, j + n)

\* Series.str.contains(pat) on one string: re.search(pat, s), regex=True
\* being the default
Contains(pat, s) ==
  \E atoms \in {Atoms(pat)} : \E j \in 1..(Len(s) + 1) : MatchHere(atoms, 1, s, j)

\* search_dataframe without the test of lines 251-252
search_dataframe_always_masks(df, search_term) ==
  Let(Lower(search_term),
      LAMBDA term :
        LET object == {c \in df.cols : Dtypes(df)[c] = "object"} IN
        [kind |-> "ok",
         df |-> Take(df, {i \in 1..Len(df.rows) :
                            \E c \in object :
                              Contains(term, Lower(CellStr(df.rows[i][c])))})])

\* search_dataframe(df, search_term): the table it returns, or the re.error
\* the first object column's str.contains raises
search_dataframe(df, search_term) ==
  IF Len(search_term) = 0 THEN [kind |-> "ok", df |-> df]
  ELSE Let(Lower(search_term),
           LAMBDA term :
             LET object == {c \in df.cols : Dtypes(df)[c] = "object"} IN
             IF object # {} /\ CompileFails(term)
             THEN [kind |-> "raise", cause |-> "re.error"]
             ELSE [kind |-> "ok",
                   df |-> Take(df, {i \in 1..Len(df.rows) :
                                      \E c \in object :
                                        Contains(term, Lower(CellStr(df.rows[i][c])))})])

\* ------------------------------------------------------------------------
\* Bounded inputs: envelope elements and data files
\* ------------------------------------------------------------------------

Envelope(ca) == Obj([message |-> Obj([content |-> Obj([contact_analytics |-> ca])])])

S(chars) == Str(chars)

\* Elements without the nested path
NoMessage == Obj([event |-> S(<<"x">>)])

NullMessage == Obj([message |-> Null])

NoAnalytics == Obj([message |-> Obj([content |-> Obj([text |-> S(<<"h", "i">>)])])])

\* The record of the end-to-end example: contact_id, basic_info and
\* sales_qualification only
Jane ==
  Envelope(Obj([contact_id |-> S(<<"c", "1">>),
                basic_info |-> Obj([full_name |-> S(<<"J", "D">>),
                                    role |-> S(<<"C", "T", "O">>)]),
                sales_qualification |-> Obj([lead_score |-> Num(4)])]))

\* A record with all eight sub-objects and every sub-field
Full ==
  Envelope(Obj(
    [contact_id |-> S(<<"c", "2">>),
     basic_info |-> Obj([full_name |-> S(<<"A", "B">>), company |-> S(<<"X">>),
                         role |-> S(<<"C", "T", "O">>)]),
     challenge_analysis |-> Obj(
       [raw_challenge |-> S(<<"r">>), category |-> S(<<"K">>),
        keywords |-> List(<<S(<<"a">>), S(<<"b">>)>>),
        severity_level |-> S(<<"H">>), impact_area |-> S(<<"o">>)]),
     scavenger_hunt_metrics |-> Obj(
       [participated |-> Bool(TRUE), completion_rate |-> Num(50),
        completed_activities |-> List(<<S(<<"q">>)>>),
        response_speed |-> S(<<"f">>), completed_full_hunt |-> Bool(FALSE)]),
     engagement_analysis |-> Obj(
       [overall_score |-> Num(80), response_pattern |-> S(<<"p">>),
        interested_features |-> List(<<S(<<"u">>), S(<<"v">>)>>),
        conversation_depth |-> S(<<"d">>),
        contact_sharing_willingness |-> S(<<"w">>)]),
     sentiment_metrics |-> Obj(
       [overall_sentiment |-> S(<<"P">>), sentiment_progression |-> S(<<"s">>),
        enthusiasm_level |-> Num(7), pain_points |-> List(<<S(<<"a">>)>>),
        satisfaction_signals |-> List(<< >>)]),
     industry_insights |-> Obj(
       [company_size_indicator |-> S(<<"M">>), industry_vertical |-> S(<<"I">>),
        tech_adoption_level |-> S(<<"t">>), competitive_position |-> S(<<"l">>)]),
     follow_up_strategy |-> Obj(
       [recommended_next_step |-> S(<<"n">>), suggested_content |-> S(<<"g">>),
        ideal_follow_up_time |-> S(<<"1">>), preferred_channel |-> S(<<"E">>),
        key_talking_points |-> List(<<S(<<"a">>), S(<<"c">>)>>)]),
     sales_qualification |-> Obj(
       [lead_score |-> Num(2), estimated_timeline |-> S(<<"3", "0">>),
        objections_to_address |-> List(<<S(<<"z">>)>>),
        budget_indicator |-> S(<<"L">>), decision_maker_status |-> S(<<"y">>)])]))

\* A record with all eight sub-objects, most sub-fields missing, a null
\* scalar and scores that are not numbers
Sparse ==
  Envelope(Obj(
    [contact_id |-> S(<<"c", "3">>),
     basic_info |-> Obj([full_name |-> Null]),
     challenge_analysis |-> Obj([category |-> S(<<"K">>)]),
     scavenger_hunt_metrics |-> Obj([completion_rate |-> S(<<"4", "0">>)]),
     engagement_analysis |-> Obj([overall_score |-> Null]),
     sentiment_metrics |-> Obj([overall_sentiment |-> S(<<"N">>)]),
     industry_insights |-> Obj([industry_vertical |-> S(<<"I">>)]),
     follow_up_strategy |-> Obj([preferred_channel |-> S(<<"E">>)]),
     sales_qualification |-> Obj([lead_score |-> S(<<"n", "a">>)])]))

\* Records whose list-typed sub-field is present but null, or holds a
\* non-string element
NullList ==
  Envelope(Obj([contact_id |-> S(<<"c", "4">>),
                challenge_analysis |-> Obj([keywords |-> Null])]))

NumList ==
  Envelope(Obj([contact_id |-> S(<<"c", "5">>),
                sentiment_metrics |-> Obj([pain_points |-> List(<<Num(1)>>)])]))

Elements == {NoMessage, NullMessage, NoAnalytics, Jane, Full, Sparse, NullList, NumList}

RECURSIVE SeqsUpTo(_, _)
SeqsUpTo(set, n) ==
  IF n = 0 THEN {<< >>}
  ELSE LET shorter == SeqsUpTo(set, n - 1) IN
       shorter \cup {Append(q, e) : q \in {r \in shorter : Len(r) = n - 1}, e \in set}

\* The data file: absent, not JSON, or a JSON array of envelope elements
Files(n) ==
  {[state |-> "missing", data |-> << >>], [state |-> "malformed", data |-> << >>]}
    \cup {[state |-> "ok", data |-> d] : d \in SeqsUpTo(Elements, n)}

\* What the user can put into the file uploader: bytes that are not JSON,
\* or a JSON array
Uploads ==
  {[state |-> "invalid", data |-> << >>, read |-> FALSE]}
    \cup {[state |-> "valid", data |-> d, read |-> FALSE] :
            d \in {<<Jane>>, <<NoMessage>>, <<Full, NullList>>}}

NoUpload == [state |-> "none", data |-> << >>, read |-> FALSE]

\* A record with all eight sub-objects whose values differ from those of
\* Full
Second ==
  Envelope(Obj(
    [contact_id |-> S(<<"c", "9">>),
     basic_info |-> Obj([full_name |-> S(<<"E", "F">>), role |-> S(<<"C", "E", "O">>)]),
     challenge_analysis |-> Obj([category |-> S(<<"L">>),
                                 keywords |-> List(<<S(<<"b">>)>>)]),
     scavenger_hunt_metrics |-> Obj([participated |-> Bool(FALSE)]),
     engagement_analysis |-> Obj([overall_score |-> Num(60)]),
     sentiment_metrics |-> Obj([overall_sentiment |-> S(<<"N">>)]),
     industry_insights |-> Obj([industry_vertical |-> S(<<"I">>)]),
     follow_up_strategy |-> Obj([preferred_channel |-> S(<<"E">>)]),
     sales_qualification |-> Obj([lead_score |-> Num(4)])]))

\* A record with every sub-object but basic_info
NoBasic ==
  Envelope(Obj(
    [contact_id |-> S(<<"c", "0">>),
     challenge_analysis |-> Obj([category |-> S(<<"K">>)]),
     scavenger_hunt_metrics |-> Obj([participated |-> Bool(TRUE)]),
     engagement_analysis |-> Obj([overall_score |-> Num(10)]),
     sentiment_metrics |-> Obj([overall_sentiment |-> S(<<"P">>)]),
     industry_insights |-> Obj([industry_vertical |-> S(<<"U", "n", "k", "n", "o", "w", "n">>)]),
     follow_up_strategy |-> Obj([preferred_channel |-> S(<<"E">>)]),
     sales_qualification |-> Obj([lead_score |-> Num(3)])]))

\* Most rows of the data file of a dashboard session.
MaxDashRows == 2

DashElements == {Full, Sparse, Second, NoBasic}

DashFiles == {[state |-> "ok", data |-> d] : d \in SeqsUpTo(DashElements, MaxDashRows)}

\* The values of the widgets of the SEARCH & FILTERS expander
Widgets(term, role, sentiment, challenge, industry, lo, hi) ==
  [search_term |-> term, role |-> role, overall_sentiment |-> sentiment,
   challenge_category |-> challenge, industry_vertical |-> industry,
   lead_score_range |-> <<lo, hi>>]

\* The widgets as they are first shown: no term, nothing selected, the
\* whole slider range
DefaultWidgets == Widgets(<< >>, << >>, << >>, << >>, << >>, 0, 5)

\* What the user sets the widgets to
WidgetSettings ==
  { DefaultWidgets,
    Widgets(<< >>, <<S(<<"C", "T", "O">>)>>, << >>, << >>, << >>, 0, 5),
    Widgets(<< >>, <<S(<<"C", "T", "O">>), S(<<"C", "E", "O">>)>>, <<S(<<"N">>)>>,
            << >>, <<S(<<"I">>)>>, 0, 5),
    Widgets(<< >>, << >>, << >>, <<S(<<"K">>)>>, << >>, 2, 4),
    Widgets(<< >>, << >>, << >>, << >>, << >>, 3, 5),
    Widgets(<<"C", "e", "o">>, << >>, << >>, << >>, << >>, 0, 5),
    Widgets(<<"c", "t", "o">>, << >>, <<S(<<"P">>)>>, << >>, << >>, 2, 2),
    Widgets(<<"c", ".", "o">>, << >>, << >>, << >>, << >>, 0, 5),
    Widgets(<<"(">>, << >>, << >>, << >>, << >>, 0, 5) }

Pages == {"main", "contact_details", "sentiment_analysis", "challenge_analysis",
          "sales_qualification", "industry_insights"}

\* ------------------------------------------------------------------------
\* State
\* ------------------------------------------------------------------------

VARIABLES
  file,               \* attached_assets/data.json as it is on disk
  session,            \* number of the browser session
  page,               \* the page the browser shows
  pending,            \* a script run of the page is due
  hasData,            \* 'data' in st.session_state
  data,               \* st.session_state.data
  hasMetrics,         \* 'aggregate_metrics' in st.session_state
  aggregate_metrics,  \* st.session_state.aggregate_metrics
  hasConversations,   \* 'conversations' in st.session_state
  conversations,      \* the keys of st.session_state.conversations
  uploaded,           \* the value of the file_uploader widget
  messages,           \* what the last script run showed with st.error/warning/success
  crashed,            \* the last script run ended in an uncaught exception
  loadCalls,          \* calls of load_data in this session
  caught,             \* load failures caught in this session
  tick,               \* parity of the reruns the script itself has requested
  widgets,            \* the values of the search and filter widgets
  filtered,           \* filtered_data and the match count the last run showed
  keywords,           \* the four keyword tables of st.session_state
  ui,                 \* st.session_state.selected_contact and .current_view
  call                \* the latest direct call of a pipeline function, with its result

sessionVars ==
  <<hasData, data, hasMetrics, aggregate_metrics, hasConversations, conversations,
    uploaded, messages, crashed, loadCalls, caught, tick, widgets, filtered,
    keywords, ui>>

vars == <<file, session, page, pending, sessionVars, call>>

NoCall == [fn |-> "none"]

\* No filtered table: the run did not reach the filters
NoFiltered == [state |-> "none"]

\* No keyword tables: app.py has not run in this session
NoKeywords == [state |-> "none"]

\* The UI state of app.py lines 170-180: no contact selected, the dashboard
\* view.  None is Null.
DashboardView == [selected_contact |-> Null, current_view |-> "dashboard"]

\* A fresh st.session_state, before the first script run
FreshSession ==
  /\ hasData = FALSE
  /\ data = EmptyDF
  /\ hasMetrics = FALSE
  /\ aggregate_metrics = EmptyDict
  /\ hasConversations = FALSE
  /\ conversations = {}
  /\ uploaded = NoUpload
  /\ messages = {}
  /\ crashed = FALSE
  /\ loadCalls = 0
  /\ caught = 0
  /\ tick = 0
  /\ widgets = DefaultWidgets
  /\ filtered = NoFiltered
  /\ keywords = NoKeywords
  /\ ui = DashboardView

InitWith(files) ==
  /\ file \in files
  /\ session = 1
  /\ page \in Pages
  /\ pending = TRUE
  /\ FreshSession
  /\ call = NoCall

Init == InitWith(Files(MaxFileLen))

\* ------------------------------------------------------------------------
\* The parts of a script run
\* ------------------------------------------------------------------------

\* LoadBlock with a handler that shows nothing
LoadBlockSilent ==
  IF hasData THEN [data |-> data, called |-> 0, failed |-> 0, msgs |-> {}]
  ELSE LET r == load_data(file) IN
       IF r.kind = "ok"
       THEN [data |-> r.df, called |-> 1, failed |-> 0, msgs |-> {}]
       ELSE [data |-> EmptyDF, called |-> 1, failed |-> 1, msgs |-> {}]

\* LoadBlock without the test for 'data' in st.session_state
LoadBlockEveryRun ==
  LET r == load_data(file) IN
  IF r.kind = "ok"
  THEN [data |-> r.df, called |-> 1, failed |-> 0, msgs |-> {}]
  ELSE [data |-> EmptyDF, called |-> 1, failed |-> 1, msgs |-> {"load_error"}]

\* "if 'data' not in st.session_state: try: ... = load_data() except ...":
\* the table the session holds after the block, and what the block did.
LoadBlock ==
  IF hasData THEN [data |-> data, called |-> 0, failed |-> 0, msgs |-> {}]
  ELSE LET r == load_data(file) IN
       IF r.kind = "ok"
       THEN [data |-> r.df, called |-> 1, failed |-> 0, msgs |-> {}]
       ELSE [data |-> EmptyDF, called |-> 1, failed |-> 1, msgs |-> {"load_error"}]

\* The fallback dict of app.py lines 105-116 and 119-130
ZeroMetrics(total) ==
  [total_contacts |-> total,
   avg_engagement_score |-> Num(0),
   avg_lead_score |-> Num(0),
   avg_enthusiasm_level |-> Num(0),
   avg_completion_rate |-> Num(0),
   sentiment_distribution |-> EmptyDict,
   challenge_categories |-> EmptyDict,
   role_distribution |-> EmptyDict,
   preferred_channels |-> EmptyDict,
   industry_verticals |-> EmptyDict]

\* app.py lines 100-130, for the session table d
MetricsBlock(d) ==
  IF hasMetrics /\ DOMAIN aggregate_metrics # {}
  THEN [value |-> aggregate_metrics, msgs |-> {}]
  ELSE IF IsEmpty(d) THEN [value |-> ZeroMetrics(0), msgs |-> {}]
  ELSE LET g == get_aggregate_metrics(d) IN
       IF g.kind = "ok" THEN [value |-> g.metrics, msgs |-> {}]
       ELSE [value |-> ZeroMetrics(Len(d.rows)), msgs |-> {"metrics_error"}]

\* The columns the loop of app.py lines 191-232 reads from each row
ConversationCols ==
  {"contact_id", "raw_challenge", "challenge_keywords", "industry_vertical",
   "overall_sentiment"}

\* One iteration of that loop raises: a KeyError for a missing column, a
\* TypeError for "',' in" a challenge_keywords cell that is not a str.
RowRaises(d, i) ==
  \/ ~(ConversationCols \subseteq d.cols)
  \/ d.rows[i]["challenge_keywords"].t # "str"

\* app.py lines 186-232: the conversations stored, and whether the loop
\* raised (nothing catches it)
ConversationsBlock(d) ==
  IF hasConversations THEN [keys |-> conversations, raised |-> FALSE]
  ELSE LET bad == {i \in 1..Len(d.rows) : RowRaises(d, i)}
           stop == IF bad = {} THEN Len(d.rows) + 1
                   ELSE CHOOSE i \in bad : \A j \in bad : i <= j
       IN [keys |-> {d.rows[i]["contact_id"] : i \in 1..(stop - 1)},
           raised |-> bad # {}]

\* app.py lines 235-250, reached with an empty session table: the uploader
\* and what follows it.  json.load of the widget's buffer fails for bytes
\* that are not JSON; a buffer already read in an earlier run is either
\* served again from its start (fresh) or is at its end, and then fails.
UploadBlock(fresh) ==
  IF uploaded.state = "none"
  THEN [file |-> file, uploaded |-> uploaded, rerun |-> FALSE,
        msgs |-> {"no_data_warning"}]
  ELSE IF uploaded.state = "invalid" \/ (uploaded.read /\ ~fresh)
  THEN [file |-> file, uploaded |-> [uploaded EXCEPT !.read = TRUE], rerun |-> FALSE,
        msgs |-> {"no_data_warning", "upload_error"}]
  ELSE [file |-> [state |-> "ok", data |-> uploaded.data],
        uploaded |-> [uploaded EXCEPT !.read = TRUE], rerun |-> TRUE,
        msgs |-> {"no_data_warning", "upload_success"}]

\* The type by which sorted() compares a cell
SortKind(v) ==
  CASE v.t \in {"num", "nan", "bool"} -> "number"
    [] OTHER -> v.t

\* What sorted(data[col].unique()) raises, or "none": KeyError for a
\* column the table lacks, TypeError when values of the column cannot be
\* compared with each other (a str with a NaN or a None).
OptionsError(d, col) ==
  IF col \notin d.cols THEN "KeyError"
  ELSE IF Cardinality({SortKind(d.rows[i][col]) : i \in 1..Len(d.rows)}) > 1
  THEN "TypeError"
  ELSE "none"

\* The columns of the four multiselects, in the order the script builds
\* them
OptionColumns == <<"overall_sentiment", "role", "challenge_category", "industry_vertical">>

\* st.session_state.filters of app.py lines 335-340, as its items in order
FiltersOf(w) ==
  <<[column |-> "role", value |-> List(w.role)],
    [column |-> "overall_sentiment", value |-> List(w.overall_sentiment)],
    [column |-> "challenge_category", value |-> List(w.challenge_category)],
    [column |-> "industry_vertical", value |-> List(w.industry_vertical)]>>

\* The mask of lines 346-349: a comparison with NaN is false
RangeMask(d, range) ==
  {i \in 1..Len(d.rows) :
     /\ d.rows[i]["lead_score"].t = "num"
     /\ d.rows[i]["lead_score"].n >= range[1]
     /\ d.rows[i]["lead_score"].n <= range[2]}

\* What the run shows after the filters: filtered_data and the two
\* numbers of line 359
Shown(f, d) == [state |-> "shown", df |-> f, count |-> Len(f.rows), total |-> Len(d.rows)]

\* app.py lines 292-359 on the session table d with the widget values w:
\* the options of the multiselects, then the three filters one after the
\* other; an exception ends the run.
FiltersBlock(d, w) ==
  IF \E k \in 1..Len(OptionColumns) : OptionsError(d, OptionColumns[k]) # "none"
  THEN [state |-> "raised"]
  ELSE IF "lead_score" \notin d.cols THEN [state |-> "raised"]
  ELSE Let(filter_dataframe(Take(d, RangeMask(d, w.lead_score_range)), FiltersOf(w)),
           LAMBDA f :
             IF Len(w.search_term) = 0 THEN Shown(f, d)
             ELSE Let(search_dataframe(f, w.search_term),
                      LAMBDA s : IF s.kind = "raise" THEN [state |-> "raised"]
                                 ELSE Shown(s.df, d)))

\* ------------------------------------------------------------------------
\* DataFrame objects: which name is bound to the session's table
\* ------------------------------------------------------------------------

\* "filtered_data = st.session_state.data": a name for the object the
\* session holds.  shared says that the object is the session's.
Same(d) == [df |-> d, shared |-> TRUE]

\* DataFrame.copy() handing back the object it was called on
CopyShares(fr) == fr

\* DataFrame.copy(): a new object with the same cells
Copy(fr) == [df |-> fr.df, shared |-> FALSE]

\* df[mask]: a new object with the rows whose index is in keep
Index(fr, keep) == [df |-> Take(fr.df, keep), shared |-> FALSE]

\* df[col] = values: the table the object holds after the assignment
SetColumn(df, col, Value(_)) ==
  [cols |-> df.cols \cup {col},
   rows |-> [i \in 1..Len(df.rows) |->
               [c \in df.cols \cup {col} |->
                  IF c = col THEN Value(df.rows[i]) ELSE df.rows[i][c]]]]

\* The table the object fr names holds when the session's table is d
Held(d, fr) == IF fr.shared THEN d ELSE fr.df

\* st.session_state.data after an assignment into the object fr names
After(d, fr, written) == IF fr.shared THEN written ELSE d

Unknown == Str(<<"U", "n", "k", "n", "o", "w", "n">>)

NotSpecified == Str(<<"N", "o", "t", " ", "S", "p", "e", "c", "i", "f", "i", "e", "d">>)

\* Series.replace('Unknown', 'Not Specified') on one cell
Replace(cell) == IF cell = Unknown THEN NotSpecified ELSE cell

\* create_industry_vertical_chart(df) called with the object fr: what
\* st.session_state.data, d before the call, holds after it
create_industry_vertical_chart(d, fr) ==
  \* df_clean = df.copy(); df_clean['industry_vertical'] = ...
  LET df_clean == Copy(fr) IN
  After(d, df_clean,
        SetColumn(df_clean.df, "industry_vertical",
                  LAMBDA row : Replace(row["industry_vertical"])))

\* sentiment_mapping of 2_Sentiment_Analysis.py lines 110-115, in halves
sentiment_mapping(cell) ==
  CASE cell = Str(<<"P", "o", "s", "i", "t", "i", "v", "e">>) -> Num(6)
    [] cell = Str(<<"N", "e", "u", "t", "r", "a", "l">>) -> Num(4)
    [] cell = Str(<<"M", "i", "x", "e", "d">>) -> Num(3)
    [] cell = Str(<<"N", "e", "g", "a", "t", "i", "v", "e">>) -> Num(2)
    [] OTHER -> NaN

\* The columns of the multiselects and of the selectbox of a page of
\* src/pages, in the order the page builds them
PageOptions(p) ==
  CASE p = "contact_details" -> <<"role">>
    [] p = "sentiment_analysis" -> <<"overall_sentiment", "sentiment_progression">>
    [] p = "challenge_analysis" -> <<"challenge_category", "severity_level", "impact_area">>
    [] p = "sales_qualification" -> <<"estimated_timeline", "decision_maker_status">>
    [] p = "industry_insights" ->
         <<"industry_vertical", "company_size_indicator", "tech_adoption_level">>

\* The column and the default range of the slider of a page, if it has one
PageRange(p) ==
  CASE p = "sentiment_analysis" -> <<[column |-> "enthusiasm_level", range |-> <<0, 10>>]>>
    [] p = "sales_qualification" -> <<[column |-> "lead_score", range |-> <<0, 5>>]>>
    [] OTHER -> << >>

\* The rows a slider's range lets through: a comparison with NaN is false
InRange(df, column, range) ==
  {i \in 1..Len(df.rows) :
     /\ df.rows[i][column].t = "num"
     /\ df.rows[i][column].n >= range[1]
     /\ df.rows[i][column].n <= range[2]}

\* What a page shows for a table without rows
NoRows(d) == [data |-> d, raised |-> FALSE, msgs |-> {"no_data_warning"}]

\* The run of a page ended in an exception nothing catches
Raised(d) == [data |-> d, raised |-> TRUE, msgs |-> {}]

\* The body of page p of src/pages on the session table d.  pick is the
\* row whose value the user has selected in the page's first selector (0:
\* nothing selected), term the search term of the Contact Details page.
\* The result is the table the session holds after the run and whether
\* the run raised: a KeyError or TypeError of the selectors' options, a
\* KeyError of the slider's column, a re.error of the search.
PageBody(p, d, pick, term) ==
  IF IsEmpty(d) THEN NoRows(d)
  ELSE IF \E k \in 1..Len(PageOptions(p)) : OptionsError(d, PageOptions(p)[k]) # "none"
  THEN Raised(d)
  ELSE IF \E k \in 1..Len(PageRange(p)) : PageRange(p)[k].column \notin d.cols
  THEN Raised(d)
  ELSE
    LET first == PageOptions(p)[1]
        start == IF p = "contact_details" THEN Same(d) ELSE Copy(Same(d))
        picked == IF pick = 0 THEN start
                  ELSE Index(start, {i \in 1..Len(d.rows) :
                                       d.rows[i][first] = d.rows[pick][first]})
        ranged == IF PageRange(p) = << >> THEN picked
                  ELSE Index(picked, InRange(picked.df, PageRange(p)[1].column,
                                             PageRange(p)[1].range))
    IN
    CASE p = "contact_details" ->
           \* lines 53-54: search_dataframe only with a term, and then it
           \* returns df[mask]
           IF Len(term) > 0 /\ search_dataframe(ranged.df, term).kind = "raise"
           THEN Raised(d)
           ELSE [data |-> d, raised |-> FALSE, msgs |-> {}]
      [] p = "sentiment_analysis" ->
           \* line 118: filtered_data['sentiment_numeric'] = ...
           [data |-> After(d, ranged,
                           SetColumn(ranged.df, "sentiment_numeric",
                                     LAMBDA row : sentiment_mapping(row["overall_sentiment"]))),
            raised |-> FALSE, msgs |-> {}]
      [] p = "industry_insights" ->
           \* line 80, then lines 191-192 on filtered_data.copy()
           Let(create_industry_vertical_chart(d, ranged),
               LAMBDA d2 :
                 IF "competitive_position" \notin d2.cols THEN Raised(d2)
                 ELSE [data |-> After(d2, Copy(ranged),
                                      SetColumn(Held(d2, ranged), "competitive_position",
                                                LAMBDA row : Replace(row["competitive_position"]))),
                       raised |-> FALSE, msgs |-> {}])
      [] OTHER -> [data |-> d, raised |-> FALSE, msgs |-> {}]

\* One of the four try blocks of app.py lines 132-167: the keyword table
\* stored for a column, {} when the table is empty, lacks the column, or
\* extract_keywords raises
KeywordsOf(d, column) ==
  IF IsEmpty(d) \/ column \notin d.cols THEN << >>
  ELSE Let(extract_keywords(d, column),
           LAMBDA r : IF r.kind = "ok" THEN r.items ELSE << >>)

\* app.py lines 132-167: the four tables are stored by the first run of
\* app.py of a session and kept by every later one.
KeywordsBlock(d) ==
  IF keywords.state # "none" THEN keywords
  ELSE [state |-> "set",
        challenge_keywords |-> KeywordsOf(d, "challenge_keywords"),
        pain_points |-> KeywordsOf(d, "pain_points"),
        satisfaction_signals |-> KeywordsOf(d, "satisfaction_signals"),
        talking_points |-> KeywordsOf(d, "key_talking_points")]

\* app.py lines 362-594 on a table with rows: which view the run shows for
\* the selected contact.  The contact view takes the first row with the
\* contact's id, an IndexError when there is none.
MainContent(d, selected_contact) ==
  IF selected_contact = Null THEN "dashboard"
  ELSE IF \E i \in 1..Len(d.rows) : CellEq(d.rows[i]["contact_id"], selected_contact)
  THEN "contact"
  ELSE "raised"

\* The object filtered_data names after app.py lines 343-356, fl being
\* what FiltersBlock shows: a copy of the session's table (line 343), cut by
\* the range mask (lines 346-349), copied by filter_dataframe (line 228);
\* search_dataframe returns the object it was given or df[mask].
FilteredFrame(d, w, fl) ==
  LET copied == Copy(Same(d))
      ranged == Index(copied, RangeMask(d, w.lead_score_range))
      filtered_df == Copy(ranged)
  IN [df |-> fl.df, shared |-> filtered_df.shared]

\* ------------------------------------------------------------------------
\* Actions
\* ------------------------------------------------------------------------

\* One script run of app.py
RunMain ==
  /\ pending
  /\ page = "main"
  /\ \E fresh \in BOOLEAN, ld \in {LoadBlock} :
     \E am \in {MetricsBlock(ld.data)}, cv \in {ConversationsBlock(ld.data)} :
     \E fl \in {IF ~cv.raised /\ ~IsEmpty(ld.data) THEN FiltersBlock(ld.data, widgets)
                ELSE NoFiltered} :
     \E view \in {IF fl.state = "shown" THEN MainContent(ld.data, ui.selected_contact)
                  ELSE "none"} :
       LET up == IF ~cv.raised /\ IsEmpty(ld.data) THEN UploadBlock(fresh)
                 ELSE [file |-> file, uploaded |-> NoUpload, rerun |-> FALSE,
                       msgs |-> {}]
       IN /\ hasData' = TRUE
          /\ filtered' = fl
          /\ data' = IF view = "dashboard"
                     THEN create_industry_vertical_chart(
                            ld.data, FilteredFrame(ld.data, widgets, fl))
                     ELSE ld.data
          /\ keywords' = KeywordsBlock(ld.data)
          /\ loadCalls' = loadCalls + ld.called
          /\ caught' = caught + ld.failed
          /\ hasMetrics' = TRUE
          /\ aggregate_metrics' = am.value
          /\ hasConversations' = TRUE
          /\ conversations' = cv.keys
          /\ crashed' = (cv.raised \/ fl.state = "raised" \/ view = "raised")
          /\ file' = up.file
          /\ uploaded' = up.uploaded
          /\ pending' = up.rerun
          /\ tick' = IF up.rerun THEN 1 - tick ELSE tick
          /\ messages' = ld.msgs \cup am.msgs \cup up.msgs
  /\ UNCHANGED <<session, page, widgets, ui, call>>

\* The search terms typed on the Contact Details page
PageTerms == {<< >>, <<"c">>, <<"(">>}

\* One script run of a page of src/pages: the load block, then the page's
\* body with the values the user has given the page's widgets; for an
\* empty table the body is one warning.  The widgets of the main
\* page are not built in this run, so their values are dropped; the term
\* stays in st.session_state.search_term, the text input's initial value.
RunPage ==
  /\ pending
  /\ page # "main"
  /\ \E ld \in {LoadBlock} :
     \E term \in (IF page = "contact_details" THEN PageTerms ELSE {<< >>}) :
     \E pick \in 0..Len(ld.data.rows) :
     \E body \in {PageBody(page, ld.data, pick, term)} :
       /\ hasData' = TRUE
       /\ data' = body.data
       /\ loadCalls' = loadCalls + ld.called
       /\ caught' = caught + ld.failed
       /\ messages' = ld.msgs \cup body.msgs
       /\ crashed' = body.raised
  /\ uploaded' = NoUpload
  /\ widgets' = [DefaultWidgets EXCEPT !.search_term = widgets.search_term]
  /\ filtered' = NoFiltered
  /\ pending' = FALSE
  /\ UNCHANGED <<file, session, page, hasMetrics, aggregate_metrics,
                 hasConversations, conversations, tick, keywords, ui, call>>

\* The user opens another page of the app.
Navigate ==
  /\ ~pending
  /\ \E p \in Pages \ {page} : page' = p
  /\ pending' = TRUE
  /\ UNCHANGED <<file, session, sessionVars, call>>

\* The user puts a file into the uploader the main page showed.
Upload ==
  /\ ~pending
  /\ page = "main"
  /\ hasData /\ IsEmpty(data) /\ ~crashed
  /\ \E u \in Uploads : uploaded' = u
  /\ pending' = TRUE
  /\ UNCHANGED <<file, session, page, hasData, data, hasMetrics, aggregate_metrics,
                 hasConversations, conversations, messages, crashed, loadCalls,
                 caught, tick, widgets, filtered, keywords, ui, call>>

\* The user refreshes the browser page: a new session with a fresh
\* st.session_state.
Refresh ==
  /\ session < MaxSessions
  /\ session' = session + 1
  /\ hasData' = FALSE
  /\ data' = EmptyDF
  /\ hasMetrics' = FALSE
  /\ aggregate_metrics' = EmptyDict
  /\ hasConversations' = FALSE
  /\ conversations' = {}
  /\ uploaded' = NoUpload
  /\ messages' = {}
  /\ crashed' = FALSE
  /\ loadCalls' = 0
  /\ caught' = 0
  /\ tick' = 0
  /\ widgets' = DefaultWidgets
  /\ filtered' = NoFiltered
  /\ keywords' = NoKeywords
  /\ ui' = DashboardView
  /\ pending' = TRUE
  /\ UNCHANGED <<file, page, call>>

\* The user changes the search term, the selections or the slider of the
\* main page; a multiselect offers the values of its column only.
SetFilters ==
  /\ ~pending
  /\ page = "main"
  /\ filtered.state = "shown"
  /\ \E w \in WidgetSettings \ {widgets} :
       /\ \A k \in 1..Len(OptionColumns) :
            \A e \in 1..Len(w[OptionColumns[k]]) :
              \E i \in 1..Len(data.rows) : data.rows[i][OptionColumns[k]] = w[OptionColumns[k]][e]
       /\ widgets' = w
  /\ pending' = TRUE
  /\ UNCHANGED <<file, session, page, hasData, data, hasMetrics, aggregate_metrics,
                 hasConversations, conversations, uploaded, messages, crashed,
                 loadCalls, caught, tick, filtered, keywords, ui, call>>

\* The value of the selectbox of app.py lines 585-589: the contact_id of a
\* row of the table the dashboard shows, None when the table has no rows
SelectboxValues(df) ==
  IF Len(df.rows) = 0 THEN {Null}
  ELSE {df.rows[i]["contact_id"] : i \in 1..Len(df.rows)}

\* The user clicks "View Contact Details" on the dashboard: the run the
\* click starts stores the selectbox's value (lines 591-594) and calls
\* st.rerun().
ViewContact ==
  /\ ~pending
  /\ page = "main"
  /\ filtered.state = "shown" /\ ~crashed
  /\ ui.selected_contact = Null
  /\ \E selected_contact_id \in SelectboxValues(filtered.df) :
       ui' = [selected_contact |-> selected_contact_id, current_view |-> "contact"]
  /\ pending' = TRUE
  /\ UNCHANGED <<file, session, page, hasData, data, hasMetrics, aggregate_metrics,
                 hasConversations, conversations, uploaded, messages, crashed,
                 loadCalls, caught, tick, widgets, filtered, keywords, call>>

\* The user clicks "Back to Dashboard" in the contact view (lines 371-374).
BackToDashboard ==
  /\ ~pending
  /\ page = "main"
  /\ filtered.state = "shown" /\ ~crashed
  /\ ui.selected_contact # Null
  /\ ui' = DashboardView
  /\ pending' = TRUE
  /\ UNCHANGED <<file, session, page, hasData, data, hasMetrics, aggregate_metrics,
                 hasConversations, conversations, uploaded, messages, crashed,
                 loadCalls, caught, tick, widgets, filtered, keywords, call>>

Next ==
  \/ RunMain \/ RunPage \/ Navigate \/ Upload \/ Refresh \/ SetFilters
  \/ ViewContact \/ BackToDashboard

\* A dashboard session: the same actions on data files whose records hold
\* the columns the main page reads
DashInit == InitWith(DashFiles)

DashSpec == DashInit /\ [][Next]_vars

Spec == Init /\ [][Next]_vars

\* The framework runs a due script run.
FairSpec == Spec /\ WF_vars(RunMain) /\ WF_vars(RunPage)

\* ------------------------------------------------------------------------
\* The pipeline functions called directly
\* ------------------------------------------------------------------------

\* processed_data as line 128 finds it (empty when the call raised before)
ProcessedData(f) ==
  IF f.state # "ok" THEN << >>
  ELSE Let(Outcomes(f.data),
           LAMBDA outs : IF \E i \in 1..Len(outs) : outs[i].kind = "raise"
                         THEN << >> ELSE RowsOf(outs))

CallLoadData ==
  /\ call.fn = "none"
  /\ call' = [fn |-> "load_data", arg |-> file, ret |-> load_data(file),
              processed_data |-> ProcessedData(file)]
  /\ UNCHANGED <<file, session, page, pending, sessionVars>>

\* get_aggregate_metrics on the table load_data returned
CallGetAggregateMetrics ==
  /\ call.fn = "load_data"
  /\ call.ret.kind = "ok"
  /\ call' = [fn |-> "get_aggregate_metrics", arg |-> call.ret.df,
              ret |-> get_aggregate_metrics(call.ret.df)]
  /\ UNCHANGED <<file, session, page, pending, sessionVars>>

\* The aggregate_metrics block of app.py (lines 100-130) on the table
\* load_data returned, in a fresh session
CallMetricsBlock ==
  /\ call.fn = "load_data"
  /\ call.ret.kind = "ok"
  /\ call' = [fn |-> "aggregate_metrics block", arg |-> call.ret.df,
              ret |-> MetricsBlock(call.ret.df).value]
  /\ UNCHANGED <<file, session, page, pending, sessionVars>>

FnInit == InitWith(Files(MaxLen)) /\ page = "main"

FnNext == CallLoadData \/ CallGetAggregateMetrics \/ CallMetricsBlock

FnSpec == FnInit /\ [][FnNext]_vars

\* ------------------------------------------------------------------------
\* Vocabulary of the properties
\* ------------------------------------------------------------------------

\* The element is an object holding message.content.contact_analytics.
ContainsPath(item) ==
  /\ item.t = "obj"
  /\ "message" \in DOMAIN item.o
  /\ item.o["message"].t = "obj"
  /\ "content" \in DOMAIN item.o["message"].o
  /\ item.o["message"].o["content"].t = "obj"
  /\ "contact_analytics" \in DOMAIN item.o["message"].o["content"].o

PathItems(d) == SelectSeq(d, ContainsPath)

Analytics(item) == item.o["message"].o["content"].o["contact_analytics"]

\* load_data was called on a file that holds a JSON array.
LoadCall == call.fn = "load_data" /\ call.arg.state = "ok"

LoadReturned == LoadCall /\ call.ret.kind = "ok"

\* The documented default of a column: '' for strings and joined lists,
\* 0 for numbers, false for booleans
DocumentedDefault(kind) ==
  CASE kind = "num" -> Num(0)
    [] kind = "bool" -> Bool(FALSE)
    [] OTHER -> EmptyStr

RECURSIVE Offset(_, _)
\* Where the k-th element starts in the ', '-join of l, counted from 0
Offset(l, k) == IF k = 1 THEN 0 ELSE Offset(l, k - 1) + Len(l[k - 1].s) + 2

\* j is list l's elements, in order, with ", " between neighbours
IsJoinOf(j, l) ==
  IF Len(l) = 0 THEN j = << >>
  ELSE /\ Len(j) = Offset(l, Len(l)) + Len(l[Len(l)].s)
       /\ \A k \in 1..Len(l) :
            /\ SubSeq(j, Offset(l, k) + 1, Offset(l, k) + Len(l[k].s)) = l[k].s
            /\ k < Len(l) => /\ j[Offset(l, k) + Len(l[k].s) + 1] = ","
                             /\ j[Offset(l, k) + Len(l[k].s) + 2] = " "

IsListOfStr(v) == v.t = "list" /\ \A i \in 1..Len(v.l) : v.l[i].t = "str"

\* The sub-fields of the sub-objects the k-th well-shaped element holds
PresentFields(k) ==
  {f \in Fields : f.sub \in DOMAIN Analytics(PathItems(call.arg.data)[k]).o}

SubObject(k, f) == Analytics(PathItems(call.arg.data)[k]).o[f.sub]

\* ------------------------------------------------------------------------
\* C1-C5, C8: load_data
\* ------------------------------------------------------------------------

\* C1: for every envelope array, load_data returns a table with as many
\* rows as the array has elements containing the nested path; elements
\* without the path are dropped and never raise.
C1_RowCountIsPathCount ==
  LoadCall =>
    /\ call.ret.kind = "ok"
    /\ Len(call.ret.df.rows) = Len(PathItems(call.arg.data))

\* C2: flattening is total: when every element of the array contains the
\* nested path, load_data does not raise and produces a row for each.
C2_FlatteningTotal ==
  (LoadCall /\ \A i \in 1..Len(call.arg.data) : ContainsPath(call.arg.data[i])) =>
    /\ call.ret.kind = "ok"
    /\ Len(call.ret.df.rows) = Len(call.arg.data)

\* C3: for a record that lacks a sub-object, every column of that
\* sub-object exists in the loaded table and holds its documented default
\* in the record's row.
C3_AbsentSubObjectDefaults ==
  LoadReturned =>
    \A k \in 1..Len(call.ret.df.rows) :
      \A f \in Fields \ PresentFields(k) :
        /\ f.col \in call.ret.df.cols
        /\ call.ret.df.rows[k][f.col] = DocumentedDefault(f.kind)

SomeListFieldNotStrings ==
  \E k \in 1..Len(PathItems(call.arg.data)) :
    \E f \in PresentFields(k) :
      /\ f.kind = "list"
      /\ f.src \in DOMAIN SubObject(k, f).o
      /\ ~IsListOfStr(SubObject(k, f).o[f.src])

C8_NoPathGivesEmptyTable ==
  (LoadCall /\ PathItems(call.arg.data) = << >>) =>
    /\ call.ret.kind = "ok"
    /\ Len(call.ret.df.rows) = 0

\* ------------------------------------------------------------------------
\* C9, C10: get_aggregate_metrics
\* ------------------------------------------------------------------------

MetricKeys ==
  {"total_contacts", "avg_engagement_score", "avg_lead_score",
   "avg_enthusiasm_level", "avg_completion_rate", "sentiment_distribution",
   "challenge_categories", "role_distribution", "preferred_channels",
   "industry_verticals"}

MeanKeys ==
  {"avg_engagement_score", "avg_lead_score", "avg_enthusiasm_level",
   "avg_completion_rate"}

DistributionKeys ==
  {"sentiment_distribution", "challenge_categories", "role_distribution",
   "preferred_channels", "industry_verticals"}

\* A mean that is zero or undefined
ZeroOrUndefined(m) == m = Num(0) \/ m = NaN

\* The ten keys, a zero count, zero or undefined means, empty distributions
IsExplicitEmptyMetrics(m) ==
  /\ DOMAIN m = MetricKeys
  /\ m["total_contacts"] = 0
  /\ \A k \in MeanKeys : ZeroOrUndefined(m[k])
  /\ \A k \in DistributionKeys : DOMAIN m[k] = {}

MetricsCallOnEmpty ==
  call.fn = "get_aggregate_metrics" /\ Len(call.arg.rows) = 0

MeanColumn(key) ==
  CASE key = "avg_engagement_score" -> "overall_score"
    [] key = "avg_lead_score" -> "lead_score"
    [] key = "avg_enthusiasm_level" -> "enthusiasm_level"
    [] key = "avg_completion_rate" -> "completion_rate"

RECURSIVE SumAt(_, _, _)
\* The sum of the numbers that column col of table df holds in rows I
SumAt(df, col, I) ==
  IF I = {} THEN 0
  ELSE LET i == CHOOSE j \in I : TRUE
       IN df.rows[i][col].n + SumAt(df, col, I \ {i})

\* C10: each mean get_aggregate_metrics returns is the sum of the numbers
\* in its column over the count of those numbers, NaN cells left out of
\* both (and undefined when the column holds no number); lead_score
\* [2, NaN, 4] gives 3.
C10_MeansOverValidValues ==
  (call.fn = "get_aggregate_metrics" /\ call.ret.kind = "ok" /\ Len(call.arg.rows) > 0) =>
    \A key \in MeanKeys :
      LET col == MeanColumn(key)
          valid == {i \in 1..Len(call.arg.rows) : call.arg.rows[i][col].t = "num"}
          m == call.ret.metrics[key]
      IN /\ valid = {} => m = NaN
         /\ valid # {} => /\ m.t = "frac"
                          /\ m.den = Cardinality(valid)
                          /\ m.num = SumAt(call.arg, col, valid)
         /\ ( /\ col = "lead_score"
              /\ Len(call.arg.rows) = 3
              /\ \E i, j, k \in 1..3 :
                   /\ {i, j, k} = 1..3
                   /\ call.arg.rows[i][col] = Num(2)
                   /\ call.arg.rows[j][col] = NaN
                   /\ call.arg.rows[k][col] = Num(4) )
            => m.num = 3 * m.den

\* The means of a table whose lead_score column is [2, NaN, 4]
C10_Witness ==
  /\ call.fn = "get_aggregate_metrics"
  /\ call.ret.kind = "ok"
  /\ Len(call.arg.rows) = 3
  /\ call.arg.rows[1]["lead_score"] = Num(2)
  /\ call.arg.rows[2]["lead_score"] = NaN
  /\ call.arg.rows[3]["lead_score"] = Num(4)
  /\ call.ret.metrics["avg_lead_score"] = [t |-> "frac", num |-> 6, den |-> 2]

\* ------------------------------------------------------------------------
\* C6, C7: load failures in a session
\* ------------------------------------------------------------------------

\* This step is a script run whose load_data call fails.
LoadFailsInStep == ~hasData /\ hasData' /\ load_data(file).kind = "raise"

\* C6: a load failure is caught once, in the run that loads: that run
\* shows an error message, leaves the empty table in the session and does
\* not crash; once a script run has finished the session table is defined;
\* a session whose load failed holds the empty table, and no run on an
\* empty table crashes.
C6_LoadFailureCaughtOnce ==
  /\ [](/\ ~pending => hasData
        /\ caught <= 1
        /\ caught = 1 => (hasData /\ data = EmptyDF)
        /\ (hasData /\ IsEmpty(data)) => ~crashed)
  /\ [][LoadFailsInStep =>
          /\ caught' = caught + 1
          /\ "load_error" \in messages'
          /\ data' = EmptyDF
          /\ ~crashed']_vars

\* A script run has just caught the failure of load_data on a file that
\* is not JSON.
C6_Witness ==
  /\ file.state = "malformed"
  /\ caught = 1
  /\ "load_error" \in messages
  /\ hasData
  /\ data = EmptyDF
  /\ ~pending

\* C7: after the user uploads a JSON array with a well-shaped record into
\* the uploader of the main page, the same session eventually holds a
\* non-empty table.
C7_UploadRecovers ==
  \A k \in 1..MaxSessions :
    (session = k /\ uploaded.state = "valid" /\ uploaded.data = <<Jane>>)
      ~> (session = k /\ hasData /\ ~IsEmpty(data))

\* ------------------------------------------------------------------------
\* C11: the distributions of get_aggregate_metrics
\* ------------------------------------------------------------------------

\* The column each distribution is counted over
DistributionColumn(key) ==
  CASE key = "sentiment_distribution" -> "overall_sentiment"
    [] key = "challenge_categories" -> "challenge_category"
    [] key = "role_distribution" -> "role"
    [] key = "preferred_channels" -> "preferred_channel"
    [] key = "industry_verticals" -> "industry_vertical"

RECURSIVE SumOfCounts(_)
\* The sum of the counts of a value -> count mapping
SumOfCounts(d) ==
  IF DOMAIN d = {} THEN 0
  ELSE LET v == CHOOSE x \in DOMAIN d : TRUE
       IN d[v] + SumOfCounts([w \in DOMAIN d \ {v} |-> d[w]])

\* C11: for a non-empty table, each of the five distributions that
\* get_aggregate_metrics returns has exactly the distinct non-null values
\* of its column as keys, maps each to the number of rows holding it, and
\* its counts sum to the number of rows with a non-null value in the
\* column; total_contacts is the number of rows.
C11_DistributionsExact ==
  (call.fn = "get_aggregate_metrics" /\ call.ret.kind = "ok" /\ Len(call.arg.rows) > 0) =>
    /\ call.ret.metrics["total_contacts"] = Len(call.arg.rows)
    /\ \A key \in DistributionKeys :
         LET col == DistributionColumn(key)
             d == call.ret.metrics[key]
             nonnull == {i \in 1..Len(call.arg.rows) :
                           call.arg.rows[i][col].t \notin {"nan", "null"}}
         IN /\ DOMAIN d = {call.arg.rows[i][col] : i \in nonnull}
            /\ \A v \in DOMAIN d :
                 d[v] = Cardinality({i \in nonnull : call.arg.rows[i][col] = v})
            /\ SumOfCounts(d) = Cardinality(nonnull)

\* The distributions of a three-row table whose challenge_category column
\* holds one value twice and a null cell
C11_Witness ==
  /\ call.fn = "get_aggregate_metrics"
  /\ call.ret.kind = "ok"
  /\ Len(call.arg.rows) = 3
  /\ \E i \in 1..3 : call.arg.rows[i]["challenge_category"] = NaN
  /\ DOMAIN call.ret.metrics["challenge_categories"] = {Str(<<"K">>)}
  /\ call.ret.metrics["challenge_categories"][Str(<<"K">>)] = 2
  /\ call.ret.metrics["total_contacts"] = 3

\* ------------------------------------------------------------------------
\* extract_keywords called directly
\* ------------------------------------------------------------------------

\* Most rows of the tables given to extract_keywords.
MaxKwRows == 3

\* The list of one-character strings
Chars(cs) == [i \in 1..Len(cs) |-> Str(<<cs[i]>>)]

\* A record with a contact_id and the keywords of a challenge_analysis
Keywords(id, list) ==
  Envelope(Obj([contact_id |-> S(id),
                challenge_analysis |-> Obj([keywords |-> List(list)])]))

TenA == Keywords(<<"k", "1">>, Chars(<<"a", "b", "c", "d", "e", "f", "g", "h", "i", "j">>))

TenB == Keywords(<<"k", "2">>, Chars(<<"k", "l", "m", "n", "o", "p", "q", "r", "s", "t">>))

Three == Keywords(<<"k", "3">>, Chars(<<"u", "v", "a">>))

Dup == Keywords(<<"k", "4">>, Chars(<<"w", "w", "y">>))

\* Keywords that hold commas, surrounding blanks, or nothing
Messy ==
  Keywords(<<"k", "5">>,
           <<S(<<"a", ",", "b">>), S(<<" ", "c", " ">>), S(<< >>),
             S(<<"x", ",", " ", ",", "y">>)>>)

\* The rows of the documented example: 'cost, speed' and 'cost, support'
Cost1 ==
  Keywords(<<"k", "6">>, <<S(<<"c", "o", "s", "t">>), S(<<"s", "p", "e", "e", "d">>)>>)

Cost2 ==
  Keywords(<<"k", "7">>,
           <<S(<<"c", "o", "s", "t">>), S(<<"s", "u", "p", "p", "o", "r", "t">>)>>)

\* A keyword that ends in a comma
CommaEnd == Keywords(<<"k", "8">>, <<S(<<"a", ",">>), S(<<"b">>)>>)

KwElements == {TenA, TenB, Three, Dup, Messy, Cost1, Cost2, Jane, CommaEnd}

KwFiles == {[state |-> "ok", data |-> d] : d \in SeqsUpTo(KwElements, MaxKwRows)}

\* The columns extract_keywords is called with: a joined list, a text
\* column and a numeric column
KwColumns == {"challenge_keywords", "role", "lead_score"}

\* all_keywords after line 193 of a call that returns
KeywordList(df, column) == NonEmpty(AllKeywords(DropNa(Column(df, column))))

\* extract_keywords on the table load_data returned
CallExtractKeywords ==
  /\ call.fn = "load_data"
  /\ call.ret.kind = "ok"
  /\ \E column \in KwColumns :
     \E ret \in {extract_keywords(call.ret.df, column)} :
       call' = [fn |-> "extract_keywords", arg |-> call.ret.df, column |-> column,
                ret |-> ret,
                all_keywords |-> IF ret.kind = "ok" THEN KeywordList(call.ret.df, column)
                                 ELSE << >>]
  /\ UNCHANGED <<file, session, page, pending, sessionVars>>

KwInit == InitWith(KwFiles) /\ page = "main"

KwNext == CallLoadData \/ CallExtractKeywords

KwSpec == KwInit /\ [][KwNext]_vars

\* ------------------------------------------------------------------------
\* C12-C14: extract_keywords
\* ------------------------------------------------------------------------

KwCall == call.fn = "extract_keywords"

KwCell(i) == call.arg.rows[i][call.column]

\* The column is one of the table's and holds only text and null cells.
KwTextColumn ==
  /\ KwCall
  /\ call.column \in call.arg.cols
  /\ \A i \in 1..Len(call.arg.rows) : KwCell(i).t \in {"str", "nan", "null"}

\* Where the pieces of s start: at its first character and after every
\* comma
PieceStarts(s) == {1} \cup {j + 1 : j \in {k \in 1..Len(s) : s[k] = ","}}

\* Where the piece of s that starts at a ends: before the next comma, or
\* at the end of s
PieceEnd(s, a) ==
  CHOOSE b \in (a - 1)..Len(s) :
    /\ b = Len(s) \/ s[b + 1] = ","
    /\ \A j \in a..b : s[j] # ","

\* The trimmed piece at every <<row, start>> of the column's text cells
Pieces ==
  [o \in UNION {{<<i, a>> : a \in PieceStarts(KwCell(i).s)} :
                  i \in {j \in 1..Len(call.arg.rows) : KwCell(j).t = "str"}} |->
     Strip(SubSeq(KwCell(o[1]).s, o[2], PieceEnd(KwCell(o[1]).s, o[2])))]

\* The occurrences of tokens: the non-empty trimmed pieces, by <<row, start>>
Occurrences ==
  Let(Pieces, LAMBDA all : [o \in {p \in DOMAIN all : all[p] # << >>} |-> all[o]])

TokensOf(occ) == {occ[o] : o \in DOMAIN occ}

CountIn(occ, t) == Cardinality({o \in DOMAIN occ : occ[o] = t})

\* The keys of the returned dict
KwKeys == {call.ret.items[i].key : i \in 1..Len(call.ret.items)}

RECURSIVE SumN(_)
SumN(items) == IF Len(items) = 0 THEN 0 ELSE items[1].n + SumN(Tail(items))

\* Occurrence o comes before occurrence p: an earlier row, or the same row
\* and further left.
Before(o, p) == o[1] < p[1] \/ (o[1] = p[1] /\ o[2] < p[2])

CostSpeed == <<"c", "o", "s", "t", ",", " ", "s", "p", "e", "e", "d">>

CostSupport == <<"c", "o", "s", "t", ",", " ", "s", "u", "p", "p", "o", "r", "t">>

CostExample ==
  {[key |-> <<"c", "o", "s", "t">>, n |-> 2],
   [key |-> <<"s", "p", "e", "e", "d">>, n |-> 1],
   [key |-> <<"s", "u", "p", "p", "o", "r", "t">>, n |-> 1]}

\* C12: on a column of text and null cells extract_keywords does not raise;
\* every key it returns is a non-empty trimmed comma-separated piece mapped
\* to the number of its occurrences over all rows, null cells adding
\* nothing; when at most 20 distinct tokens exist all of them are returned;
\* the cells 'cost, speed' and 'cost, support' give cost 2, speed 1,
\* support 1.
C12_KeywordCountsExact ==
  KwTextColumn =>
    /\ call.ret.kind = "ok"
    /\ \A occ \in {Occurrences} :
         /\ \A i, j \in 1..Len(call.ret.items) :
              call.ret.items[i].key = call.ret.items[j].key => i = j
         /\ \A i \in 1..Len(call.ret.items) :
              /\ call.ret.items[i].n > 0
              /\ call.ret.items[i].n = CountIn(occ, call.ret.items[i].key)
         /\ Cardinality(TokensOf(occ)) <= TopN => KwKeys = TokensOf(occ)
    /\ DropNa(Column(call.arg, call.column)) = <<Str(CostSpeed), Str(CostSupport)>>
         => {call.ret.items[i] : i \in 1..Len(call.ret.items)} = CostExample

\* The example's two rows with a null cell between them
C12_Witness ==
  /\ KwTextColumn
  /\ Len(call.arg.rows) = 3
  /\ KwCell(1) = Str(CostSpeed)
  /\ KwCell(2) = NaN
  /\ KwCell(3) = Str(CostSupport)
  /\ call.ret.kind = "ok"
  /\ {call.ret.items[i] : i \in 1..Len(call.ret.items)} = CostExample

\* C13: extract_keywords returns at most 20 entries, no token left out has
\* a greater count than a returned one, and the returned counts sum to at
\* most the number of non-empty tokens of the column.
C13_TopTwentyBound ==
  (KwCall /\ call.ret.kind = "ok") =>
    \A occ \in {Occurrences} :
      /\ Len(call.ret.items) <= TopN
      /\ \A t \in TokensOf(occ) \ KwKeys :
           \A i \in 1..Len(call.ret.items) : CountIn(occ, t) <= call.ret.items[i].n
      /\ SumN(call.ret.items) <= Cardinality(DOMAIN occ)

\* A column with more than 20 distinct tokens, one of them met late and
\* twice: 20 are returned, the late one among them.
C13_Witness ==
  /\ KwCall
  /\ call.ret.kind = "ok"
  /\ Cardinality(TokensOf(Occurrences)) > TopN
  /\ Len(call.ret.items) = TopN
  /\ call.ret.items[1] = [key |-> <<"w">>, n |-> 2]
  /\ KwCell(1).s[1] = "a"

\* C14: when a token left out has the same count as a returned one, the
\* returned one was met first (earlier row, or further left in the row).
C14_TiesKeepFirstEncountered ==
  (KwCall /\ call.ret.kind = "ok") =>
    \A occ \in {Occurrences} :
      \A t \in TokensOf(occ) \ KwKeys :
        \A i \in 1..Len(call.ret.items) :
          call.ret.items[i].n = CountIn(occ, t) =>
            \E o \in DOMAIN occ :
              /\ occ[o] = call.ret.items[i].key
              /\ \A p \in DOMAIN occ : occ[p] = t => Before(o, p)

\* More than 20 distinct tokens, and a token left out ties with the last
\* one returned
C14_Witness ==
  /\ KwCall
  /\ call.ret.kind = "ok"
  /\ Len(call.ret.items) = TopN
  /\ \E occ \in {Occurrences} :
       \E t \in TokensOf(occ) \ KwKeys : CountIn(occ, t) = call.ret.items[TopN].n

\* ------------------------------------------------------------------------
\* filter_dataframe and search_dataframe called directly
\* ------------------------------------------------------------------------

\* Most rows of the tables given to filter_dataframe and search_dataframe.
MaxQueryRows == 3

CTO == S(<<"C", "T", "O">>)

CEO == S(<<"C", "E", "O">>)

ACME == S(<<"A", "C", "M", "E">>)

Acme ==
  Envelope(Obj([contact_id |-> S(<<"c", "6">>),
                basic_info |-> Obj([full_name |-> S(<<"A", "l">>), company |-> ACME,
                                    role |-> CEO]),
                sales_qualification |-> Obj([lead_score |-> Num(5)])]))

Axb ==
  Envelope(Obj([contact_id |-> S(<<"c", "7">>),
                basic_info |-> Obj([company |-> S(<<"a", "x", "b">>), role |-> CTO])]))

\* Text with characters that are special in a regular expression, and a
\* null role
Dotted ==
  Envelope(Obj([contact_id |-> S(<<"c", "8">>),
                basic_info |-> Obj([full_name |-> S(<<"a", "+", "b">>),
                                    company |-> S(<<"a", ".", "b">>), role |-> Null])]))

\* A record whose only field is a numeric contact_id: alone it gives a
\* table without any text column
NumOnly == Envelope(Obj([contact_id |-> Num(7)]))

\* A contact with the name and role of Jane and the contact_id of Acme
Namesake ==
  Envelope(Obj([contact_id |-> S(<<"c", "6">>),
                basic_info |-> Obj([full_name |-> S(<<"J", "D">>), company |-> S(<<"Z">>),
                                    role |-> CTO])]))

QueryElements == {Jane, Acme, Axb, Dotted, NumOnly, Namesake}

QueryFiles == {[state |-> "ok", data |-> d] : d \in SeqsUpTo(QueryElements, MaxQueryRows)}

\* One item of a filters dict
Entry(column, list) == [column |-> column, value |-> List(list)]

\* The filters dicts given to filter_dataframe, as their items in order
FilterMaps ==
  { << >>,
    <<Entry("role", << >>)>>,
    <<Entry("role", <<CTO>>)>>,
    <<Entry("role", <<CTO, CEO>>)>>,
    <<Entry("role", <<CTO>>), Entry("company", <<S(<<"a", "x", "b">>), ACME>>)>>,
    <<Entry("role", <<CTO>>), Entry("overall_sentiment", <<S(<<"P">>)>>)>>,
    <<Entry("role", << >>), Entry("company", <<ACME>>)>>,
    <<Entry("lead_score", <<Num(4)>>)>> }

\* The search terms
Terms ==
  { << >>, <<"c", "t", "o">>, <<"C", "T", "O">>, <<"a", "c", "m", "e">>,
    <<"A", "c", "m", "e">>, <<"a", ".", "b">>, <<"a", "+", "b">>, <<"(">>,
    <<"c", "*">> }

CallFilterDataframe ==
  /\ call.fn = "load_data"
  /\ call.ret.kind = "ok"
  /\ \E filters \in FilterMaps :
       call' = [fn |-> "filter_dataframe", arg |-> call.ret.df, filters |-> filters,
                ret |-> filter_dataframe(call.ret.df, filters)]
  /\ UNCHANGED <<file, session, page, pending, sessionVars>>

CallSearchDataframe ==
  /\ call.fn = "load_data"
  /\ call.ret.kind = "ok"
  /\ \E search_term \in Terms :
       call' = [fn |-> "search_dataframe", arg |-> call.ret.df,
                search_term |-> search_term,
                ret |-> search_dataframe(call.ret.df, search_term)]
  /\ UNCHANGED <<file, session, page, pending, sessionVars>>

\* filter_dataframe on what an earlier call returned; an exception of that
\* call has ended the computation
ThenFilter(r, filters) ==
  IF r.kind = "raise" THEN r ELSE Returned(filter_dataframe(r.df, filters))

\* search_dataframe on what an earlier call returned
ThenSearch(r, search_term) ==
  IF r.kind = "raise" THEN r ELSE search_dataframe(r.df, search_term)

\* The filters dicts and the terms of the calls made one after the other
ComposedFilters ==
  { << >>,
    <<Entry("role", <<CTO>>)>>,
    <<Entry("role", <<CTO, CEO>>), Entry("company", <<S(<<"a", "x", "b">>), ACME>>)>>,
    <<Entry("contact_id", <<Num(7)>>)>> }

ComposedTerms == { << >>, <<"c", "t", "o">>, <<"a", ".", "b">>, <<"(">>, <<"7">> }

\* filter_dataframe and search_dataframe one after the other, in both
\* orders, and each of them twice
CallComposed ==
  /\ call.fn = "load_data"
  /\ call.ret.kind = "ok"
  /\ \E filters \in ComposedFilters, search_term \in ComposedTerms :
     \E f \in {ThenFilter(call.ret, filters)}, s \in {ThenSearch(call.ret, search_term)} :
       call' = [fn |-> "composed", arg |-> call.ret.df, filters |-> filters,
                search_term |-> search_term,
                f |-> f, s |-> s,
                fs |-> ThenSearch(f, search_term), sf |-> ThenFilter(s, filters),
                ff |-> ThenFilter(f, filters), ss |-> ThenSearch(s, search_term)]
  /\ UNCHANGED <<file, session, page, pending, sessionVars>>

\* str(v), as an f-string formats a cell
Format(v) ==
  CASE v.t = "nan" -> <<"n", "a", "n">>
    [] v.t = "null" -> <<"N", "o", "n", "e">>
    [] OTHER -> CellStr(v)

\* f"{row['full_name']} ({row['role']})" for row i
Label(df, i) ==
  Format(df.rows[i]["full_name"]) \o <<" ", "(">> \o Format(df.rows[i]["role"]) \o <<")">>

\* 1_Contact_Details.py lines 60-72 on a filtered table with rows, the user
\* having selected the k-th entry of the selector: the selectbox returns
\* the entry's label, contact_map holds for a label the contact_id of the
\* last row with it, and the details shown are those of the first row with
\* that contact_id (a comparison with None or NaN selects no row).
ContactSelector(df, k) ==
  IF ~({"full_name", "role", "contact_id"} \subseteq df.cols)
  THEN [kind |-> "raise", cause |-> "KeyError"]
  ELSE LET last == CHOOSE i \in 1..Len(df.rows) :
                     /\ Label(df, i) = Label(df, k)
                     /\ \A j \in (i + 1)..Len(df.rows) : Label(df, j) # Label(df, k)
           selected_contact_id == df.rows[last]["contact_id"]
           hits == {i \in 1..Len(df.rows) :
                      /\ selected_contact_id.t # "null"
                      /\ CellEq(df.rows[i]["contact_id"], selected_contact_id)}
       IN IF hits = {} THEN [kind |-> "raise", cause |-> "IndexError"]
          ELSE [kind |-> "ok", selected_contact_id |-> selected_contact_id,
                contact_data |-> df.rows[CHOOSE i \in hits : \A j \in hits : i <= j]]

\* The Contact Details page shows the table load_data returned and the
\* user selects an entry of the selector.
CallContactSelector ==
  /\ call.fn = "load_data"
  /\ call.ret.kind = "ok"
  /\ \E k \in 1..Len(call.ret.df.rows) :
       call' = [fn |-> "contact_selector", arg |-> call.ret.df, entry |-> k,
                ret |-> ContactSelector(call.ret.df, k)]
  /\ UNCHANGED <<file, session, page, pending, sessionVars>>

QueryInit == InitWith(QueryFiles) /\ page = "main"

QueryNext ==
  \/ CallLoadData \/ CallFilterDataframe \/ CallSearchDataframe \/ CallComposed
  \/ CallContactSelector

QuerySpec == QueryInit /\ [][QueryNext]_vars

\* ------------------------------------------------------------------------
\* C15, C16: filter_dataframe
\* ------------------------------------------------------------------------

FilterCall == call.fn = "filter_dataframe"

\* The entries that constrain: a column of the table mapped to a
\* non-empty list
Constraining(df, filters) ==
  {k \in 1..Len(filters) :
     /\ filters[k].column \in df.cols
     /\ filters[k].value.t = "list"
     /\ Len(filters[k].value.l) > 0}

\* Row i of df holds, in every constrained column, a member of its list.
Accepted(df, filters, i) ==
  \A k \in Constraining(df, filters) :
    \E e \in 1..Len(filters[k].value.l) :
      filters[k].value.l[e] = df.rows[i][filters[k].column]

\* Table r holds exactly the rows of df whose index is in keep, in the
\* order of df.
HoldsRows(r, df, keep) ==
  /\ r.cols = df.cols
  /\ Len(r.rows) = Cardinality(keep)
  /\ \A i \in keep : r.rows[Cardinality({j \in keep : j <= i})] = df.rows[i]

\* C15: filter_dataframe returns exactly the rows, in their order, whose
\* value in every constrained column is a member of that column's list;
\* {role: [CTO]} returns all and only the rows with role CTO.
C15_FilterKeepsAcceptedRows ==
  FilterCall =>
    /\ HoldsRows(call.ret, call.arg,
                 {i \in 1..Len(call.arg.rows) : Accepted(call.arg, call.filters, i)})
    /\ (call.filters = <<Entry("role", <<CTO>>)>> /\ "role" \in call.arg.cols) =>
         HoldsRows(call.ret, call.arg,
                   {i \in 1..Len(call.arg.rows) : call.arg.rows[i]["role"] = CTO})

\* Two constrained columns on a three-row table: only the row accepted by
\* both is returned.
C15_Witness ==
  /\ FilterCall
  /\ Len(call.filters) = 2
  /\ Cardinality(Constraining(call.arg, call.filters)) = 2
  /\ Len(call.arg.rows) = 3
  /\ Len(call.ret.rows) = 1
  /\ call.ret.rows[1]["contact_id"] = S(<<"c", "7">>)
  /\ \E i \in 1..3 : call.arg.rows[i]["company"] = ACME

\* C16: an entry whose list is empty, or whose column the table lacks,
\* imposes no constraint: the result is that of the filters without the
\* entry; {role: []} returns all rows.
C16_EmptyEntryIsNoConstraint ==
  FilterCall =>
    /\ \A k \in 1..Len(call.filters) :
         (call.filters[k].value = List(<< >>) \/ call.filters[k].column \notin call.arg.cols) =>
           \E r \in {filter_dataframe(call.arg, Without(call.filters, k))} :
             r.cols = call.ret.cols /\ r.rows = call.ret.rows
    /\ call.filters = <<Entry("role", << >>)>> =>
         call.ret.cols = call.arg.cols /\ call.ret.rows = call.arg.rows

\* {role: []} on a three-row table with a role column
C16_Witness ==
  /\ FilterCall
  /\ call.filters = <<Entry("role", << >>)>>
  /\ "role" \in call.arg.cols
  /\ Len(call.arg.rows) = 3
  /\ Len(call.ret.rows) = 3

\* ------------------------------------------------------------------------
\* C17-C19: search_dataframe
\* ------------------------------------------------------------------------

SearchCall == call.fn = "search_dataframe"

\* The columns of dtype object
TextColumns(df) == {c \in df.cols : Dtypes(df)[c] = "object"}

\* s contains pat as a literal substring
ContainsLiteral(pat, s) ==
  \E j \in 1..(Len(s) - Len(pat) + 1) : SubSeq(s, j, j + Len(pat) - 1) = pat

\* s and t are equal up to the case of their letters
DifferOnlyInCase(s, t) ==
  /\ Len(s) = Len(t)
  /\ \A i \in 1..Len(s) :
       \/ s[i] = t[i]
       \/ \E k \in 1..Len(UpperCase) : {s[i], t[i]} = {UpperCase[k], LowerCase[k]}

\* s contains pat as a literal substring, the case of letters ignored
ContainsIgnoringCase(pat, s) ==
  \E j \in 1..(Len(s) - Len(pat) + 1) :
    DifferOnlyInCase(SubSeq(s, j, j + Len(pat) - 1), pat)

\* The rows of df with a text column whose string form contains the term
\* literally, case ignored
LiteralMatches(df, term) ==
  {i \in 1..Len(df.rows) :
     \E c \in TextColumns(df) : ContainsIgnoringCase(term, CellStr(df.rows[i][c]))}

\* The term consists of letters only.
PlainTerm(term) ==
  \A i \in 1..Len(term) :
    \E k \in 1..Len(UpperCase) : term[i] \in {UpperCase[k], LowerCase[k]}

\* C17: for every non-empty term search_dataframe returns exactly the rows
\* for which the lowercased string form of some text column contains the
\* lowercased term as a literal substring.
C17_SearchLiteralSubstring ==
  (SearchCall /\ call.search_term # << >>) =>
    /\ call.ret.kind = "ok"
    /\ HoldsRows(call.ret.df, call.arg, LiteralMatches(call.arg, call.search_term))

\* C18: two terms that differ only in letter case give the same result,
\* and a term of letters finds the rows whose text contains it in any
\* case.
C18_SearchIgnoresCase ==
  SearchCall =>
    /\ \A t \in Terms :
         DifferOnlyInCase(t, call.search_term) =>
           search_dataframe(call.arg, t) = call.ret
    /\ (call.search_term # << >> /\ PlainTerm(call.search_term)) =>
         /\ call.ret.kind = "ok"
         /\ HoldsRows(call.ret.df, call.arg, LiteralMatches(call.arg, call.search_term))

\* The lower-case term finds the row whose company is written in capitals.
C18_Witness ==
  /\ SearchCall
  /\ call.search_term = <<"a", "c", "m", "e">>
  /\ Len(call.arg.rows) > 1
  /\ call.ret.kind = "ok"
  /\ Len(call.ret.df.rows) = 1
  /\ call.ret.df.rows[1]["company"] = ACME

\* C19: with an empty term search_dataframe returns the input table: the
\* same columns and the same rows in the same order.
C19_EmptyTermIsIdentity ==
  (SearchCall /\ call.search_term = << >>) =>
    /\ call.ret.kind = "ok"
    /\ call.ret.df.cols = call.arg.cols
    /\ call.ret.df.rows = call.arg.rows

\* The empty term on a table that has rows and no text column
C19_Witness ==
  /\ SearchCall
  /\ call.search_term = << >>
  /\ Len(call.arg.rows) > 0
  /\ TextColumns(call.arg) = {}
  /\ call.ret.kind = "ok"
  /\ call.ret.df.rows = call.arg.rows

\* ------------------------------------------------------------------------
\* C20: the filters of the main dashboard
\* ------------------------------------------------------------------------

\* The last run of the main page got as far as the search and filter
\* widgets.
ReachedFilters == page = "main" /\ ~pending /\ filtered.state # "none"

\* The rows of d that pass the three filters with the widget values w:
\* lead_score within the inclusive range, a member of every non-empty
\* selection, and text that contains the term
Conjunction(d, w) ==
  {i \in 1..Len(d.rows) :
     /\ d.rows[i]["lead_score"].t = "num"
     /\ w.lead_score_range[1] <= d.rows[i]["lead_score"].n
     /\ d.rows[i]["lead_score"].n <= w.lead_score_range[2]
     /\ \A k \in 1..Len(OptionColumns) :
          \/ w[OptionColumns[k]] = << >>
          \/ \E e \in 1..Len(w[OptionColumns[k]]) :
               w[OptionColumns[k]][e] = d.rows[i][OptionColumns[k]]
     /\ w.search_term = << >> \/ i \in LiteralMatches(d, w.search_term)}

\* C20: after any interaction with the main dashboard the filtered table
\* is exactly the rows of the session table that pass the range filter,
\* every non-empty selection and the search, and the match count shown is
\* their number.
C20_FilteredIsConjunction ==
  ReachedFilters =>
    /\ filtered.state = "shown"
    /\ HoldsRows(filtered.df, data, Conjunction(data, widgets))
    /\ filtered.count = Cardinality(Conjunction(data, widgets))
\* ------------------------------------------------------------------------
\* C21: the session's table is never written
\* ------------------------------------------------------------------------

\* C21: within one session, st.session_state.data after any step is the
\* table the load block left there: a script run of any page (its filters,
\* its search, its charts and column assignments) leaves the table's rows,
\* columns and values as they were, and so does every interaction.
C21_TableNeverMutated ==
  [][session' = session => data' = (IF pending THEN LoadBlock.data ELSE data)]_vars

\* C21 witness: the Sentiment Analysis and the Industry Insights pages,
\* which assign columns, have run to their end on a table with rows; here
\* the latter, on a table with an 'Unknown' industry.
C21_Witness ==
  /\ page = "industry_insights"
  /\ ~pending /\ ~crashed
  /\ hasData /\ ~IsEmpty(data)
  /\ \E i \in 1..Len(data.rows) : data.rows[i]["industry_vertical"] = Unknown

\* ------------------------------------------------------------------------
\* C22: what the main dashboard renders after an interaction
\* ------------------------------------------------------------------------

\* The last run of the main page showed the dashboard with a filtered
\* table.
DashboardShown ==
  ReachedFilters /\ filtered.state = "shown" /\ ~crashed /\ ui.selected_contact = Null

\* C22: the aggregate metrics (app.py lines 266-289) and the challenge and
\* satisfaction keyword charts (lines 671, 685) the dashboard renders after
\* an interaction are those of the table as filtered by that interaction:
\* get_aggregate_metrics and extract_keywords of filtered_data.
C22_RenderedFromFiltered ==
  DashboardShown =>
    \E g \in {get_aggregate_metrics(filtered.df)} :
      /\ g.kind = "ok"
      /\ aggregate_metrics = g.metrics
      /\ keywords.challenge_keywords = KeywordsOf(filtered.df, "challenge_keywords")
      /\ keywords.satisfaction_signals = KeywordsOf(filtered.df, "satisfaction_signals")

\* ------------------------------------------------------------------------
\* C23: contact_id across the loaded table
\* ------------------------------------------------------------------------

\* C23: no two rows of a table load_data returns share a contact_id: of
\* elements with the same contact_id the loader keeps one or rejects the
\* load.
C23_ContactIdUnique ==
  LoadReturned =>
    \A i, j \in 1..Len(call.ret.df.rows) :
      call.ret.df.rows[i]["contact_id"] = call.ret.df.rows[j]["contact_id"] => i = j

\* ------------------------------------------------------------------------
\* C24: joining a list at load and splitting it again
\* ------------------------------------------------------------------------

\* extract_keywords has returned for the joined keywords of the file's
\* records.
Reparsed ==
  /\ call.fn = "extract_keywords"
  /\ call.column = "challenge_keywords"
  /\ call.ret.kind = "ok"

\* The keywords list of an envelope element of the file, as strings; no
\* list for an element without challenge_analysis
SourceList(e) ==
  LET ca == e.o.message.o.content.o.contact_analytics.o IN
  IF "challenge_analysis" \in DOMAIN ca
  THEN [k \in 1..Len(ca.challenge_analysis.o.keywords.l) |->
          ca.challenge_analysis.o.keywords.l[k].s]
  ELSE << >>

RECURSIVE SourceElements(_)
\* The elements of the lists of the elements es, one list after the other
SourceElements(es) ==
  IF Len(es) = 0 THEN << >>
  ELSE SourceList(es[1]) \o SourceElements(Tail(es))

HasComma(s) == \E i \in 1..Len(s) : s[i] = ","

\* Non-empty, without a comma, without a blank at either end
CleanElement(s) ==
  Len(s) > 0 /\ ~HasComma(s) /\ ~IsSpace(s[1]) /\ ~IsSpace(s[Len(s)])

\* Every piece between the commas of s holds something besides blanks.
NoBlankPiece(s) ==
  \A a \in 1..(Len(s) + 1) :
    (a = 1 \/ s[a - 1] = ",") =>
      \E b \in a..Len(s) : s[b] \notin {",", " "} /\ \A j \in a..b : s[j] # ","

\* C24 as stated: when some element of a list holds a comma, the re-parse
\* of its joined string yields more tokens than the list had elements.
C24_CommaGivesMoreTokens ==
  (Reparsed /\ Len(file.data) = 1) =>
    \A src \in {SourceList(file.data[1])} :
      (\E k \in 1..Len(src) : HasComma(src[k])) => Len(call.all_keywords) > Len(src)

\* C24: joining the lists with ', ' at load and splitting on ',' with a
\* strip of each piece gives back the elements, in their order, when every
\* element is non-empty, free of commas and of blanks at its ends; when
\* some element holds a comma the re-parse never gives back the elements,
\* and it gives more tokens than there were elements when no piece between
\* the commas of any element is blank.
C24_RoundTrip ==
  Reparsed =>
    \A src \in {SourceElements(file.data)} :
      /\ (\A k \in 1..Len(src) : CleanElement(src[k])) => call.all_keywords = src
      /\ (\E k \in 1..Len(src) : HasComma(src[k])) =>
           /\ call.all_keywords # src
           /\ (\A k \in 1..Len(src) : NoBlankPiece(src[k])) =>
                Len(call.all_keywords) > Len(src)

\* C24 witness: lists of two clean elements each have been joined and
\* split again.
C24_Witness ==
  /\ Reparsed
  /\ Len(file.data) = 2
  /\ \A i \in 1..2 : Len(SourceList(file.data[i])) = 2
  /\ \A k \in 1..4 : CleanElement(SourceElements(file.data)[k])
  /\ call.all_keywords = SourceElements(file.data)

\* ------------------------------------------------------------------------
\* C25: the computations downstream of a load
\* ------------------------------------------------------------------------

\* C25: once app.py has run on a loaded table with rows,
\* get_aggregate_metrics returns its metrics for the table and the run's
\* session initialisation (metrics, keyword tables, conversations) has not
\* ended in an uncaught error.
C25_DownstreamNeverFails ==
  (page = "main" /\ ~pending /\ hasData /\ ~IsEmpty(data)) =>
    /\ get_aggregate_metrics(data).kind = "ok"
    /\ "metrics_error" \notin messages
    /\ ~(crashed /\ filtered.state = "none")

\* ------------------------------------------------------------------------
\* C26: the filters at their defaults
\* ------------------------------------------------------------------------

\* C26: with the range at 0..5, nothing selected and no search term, the
\* filtered table the main page shows holds every row of the session's
\* table, and the count it shows is the number of loaded contacts.
C26_DefaultsShowAll ==
  (ReachedFilters /\ filtered.state = "shown" /\ widgets = DefaultWidgets) =>
    /\ filtered.df.rows = data.rows
    /\ filtered.count = Len(data.rows)

\* ------------------------------------------------------------------------
\* C27: the view and the selected contact
\* ------------------------------------------------------------------------

\* C27: in every state of a session current_view is 'contact' exactly when
\* a contact is selected, and a selected contact is the contact_id of a row
\* of the session's table.
C27_ViewMatchesSelection ==
  /\ (ui.current_view = "contact") <=> (ui.selected_contact # Null)
  /\ ui.selected_contact # Null =>
       \E i \in 1..Len(data.rows) : data.rows[i]["contact_id"] = ui.selected_contact

\* ------------------------------------------------------------------------
\* C28: one load per session
\* ------------------------------------------------------------------------

\* C28: within one session load_data is called at most once, and once
\* st.session_state.data is set no script run of any page calls load_data
\* or assigns the table again.
C28_LoadedOncePerSession ==
  [][session' = session =>
       /\ loadCalls' <= 1
       /\ hasData => (hasData' /\ data' = data /\ loadCalls' = loadCalls)]_vars

\* C28 witness: app.py and then a page of src/pages have run in one
\* session, with one call of load_data between them.
C28_Witness ==
  /\ page # "main" /\ ~pending
  /\ hasMetrics /\ hasData
  /\ loadCalls = 1

\* ------------------------------------------------------------------------
\* C29: filter_dataframe and search_dataframe one after the other
\* ------------------------------------------------------------------------

\* Two computations end alike: in the same exception, or in tables with
\* the same columns and the same rows in the same order.
SameResult(a, b) ==
  /\ a.kind = b.kind
  /\ a.kind = "ok" => (a.df.cols = b.df.cols /\ a.df.rows = b.df.rows)

\* A returned table holds rows of df, in the order of df.
SubSequenceOf(r, df) ==
  r.kind = "ok" => \E keep \in SUBSET (1..Len(df.rows)) : HoldsRows(r.df, df, keep)

\* C29: for every table, filters dict and term, searching the filtered
\* table and filtering the searched table end alike, filtering twice ends
\* as filtering once, searching twice as searching once, and every table
\* returned holds rows of the input in the input's order.
C29_FilterAndSearchCommute ==
  call.fn = "composed" =>
    /\ SameResult(call.fs, call.sf)
    /\ SameResult(call.ff, call.f)
    /\ SameResult(call.ss, call.s)
    /\ \A r \in {call.f, call.s, call.fs, call.sf} : SubSequenceOf(r, call.arg)

\* C29 witness: a filter and a term that each drop a row, different ones,
\* of a table of three rows, and leave one row together.
C29_Witness ==
  /\ call.fn = "composed"
  /\ Len(call.arg.rows) = 3
  /\ call.f.kind = "ok" /\ Len(call.f.df.rows) = 2
  /\ call.s.kind = "ok" /\ Len(call.s.df.rows) = 2
  /\ call.f.df.rows # call.s.df.rows
  /\ call.fs.kind = "ok" /\ Len(call.fs.df.rows) = 1
  /\ call.sf.df.rows = call.fs.df.rows

\* ------------------------------------------------------------------------
\* C30: the selector of the Contact Details page
\* ------------------------------------------------------------------------

\* C30: for every table with the columns the selector reads, the details
\* the Contact Details page shows are those of the row of the entry the
\* user selected.
C30_SelectedContactIsShown ==
  (call.fn = "contact_selector" /\ {"full_name", "role"} \subseteq call.arg.cols) =>
    /\ call.ret.kind = "ok"
    /\ call.ret.contact_data = call.arg.rows[call.entry]

====
